---- MODULE Spec2Model ----
(***************************************************************************)
(* Model of the text scoring system (backend/app): the finding merge of    *)
(* the grammar facet (GrammarAnalyzer._merge_errors), the orchestrator     *)
(* (main.analyze_text) with its request validation, weight handling and    *)
(* result cache, the cache service on its own (CacheService) and the       *)
(* remote enrichment service (GeminiService).                              *)
(*                                                                         *)
(* Numbers: scores are integers in 0..100; weights are counted in tenths   *)
(* (0.4 is 4) and a weighted score is kept as an exact fraction num/den,   *)
(* so no floating-point rounding is modelled.  Time is counted in seconds. *)
(***************************************************************************)
EXTENDS Integers, Sequences, FiniteSets, TLC

VARIABLES
    local_errors,   \* GrammarAnalyzer.analyze: the list _run_local_analysis returns
    api_errors,     \* GrammarAnalyzer.analyze: the list _run_api_analysis returns
    all_errors,     \* GrammarAnalyzer.analyze: the list _merge_errors returns
    mpc,            \* position of the grammar facet: "collect", "merged"
    enabled,        \* CacheService.enabled (settings.cache_enabled)
    cache,          \* CacheService.cache: key -> <<>> or <<entry>>
    now,            \* time.time(), in seconds
    pc,             \* position of analyze_text: "idle", "get", "facets", "aggregate", "set", "return", "done"
    req,            \* the request in hand: <<>> or <<TextInput>>
    facet,          \* what each facet's analyze() did for the request in hand
    weights,        \* analyze_text's local `weights`: name -> numerator, and the common denominator
    result,         \* analyze_text's local `result`: <<>> or <<AnalysisResult>>
    resp,           \* the last response sent to a caller
    nreq,           \* number of requests submitted so far
    returned,       \* per key, the last freshly computed result a caller got, when, and the store's faults then
    relevance_score, \* what RelevanceAnalyzer.analyze returned for the request in hand: <<>> or <<RelevanceScore>>
    faulted,        \* the cache calls of the request in hand during which the store failed
    client,         \* callers of CacheService: where each is inside get()
    got,            \* the last CacheService.get that returned: <<>> or <<its key, row, value>>
    calls,          \* per key, the last set() on a working store not followed by a delete: <<>> or <<[value, at]>>
    everset,        \* per key, the results ever stored under it
    last_request_time, \* GeminiService.last_request_time of each service object
    rpc,            \* where each remote pass is: "idle", "sleeping", "inflight", "returned", "fallback"
    wake,           \* the time at which the asyncio.sleep of a sleeping remote pass ends
    silent,         \* whether the remote service never answers the call of a remote pass
    issued,         \* the remote requests sent so far: <<remote pass, time>>
    attempts,       \* per remote pass, the number of requests it has sent
    response,       \* GrammarAnalyzer._run_api_analysis: what the remote call did: <<>> or <<answer>>
    stats,          \* GrammarAnalyzer.analyze: stats['word_count'] of the text in hand
    grammar_score,  \* what GrammarAnalyzer.analyze returned: <<>> or <<GrammarScore>>
    call,           \* the helper function called last and its arguments
    ret,            \* what that call returned, or that it raised
    tfidf_vectorizer, \* RelevanceAnalyzer.tfidf_vectorizer: the text its vocabulary_ and idf_ were fitted on
    extract         \* per request in flight, where it is inside _extract_key_terms and what it holds

mvars == <<local_errors, api_errors, all_errors, mpc>>
ovars == <<enabled, cache, now, pc, req, facet, weights, result, resp, nreq, returned,
           relevance_score, faulted>>
svars == <<client, got, calls, everset>>
rvars == <<last_request_time, rpc, wake, silent, issued, attempts>>
gvars == <<response, stats, grammar_score>>
hvars == <<call, ret>>
kvars == <<tfidf_vectorizer, extract>>
xvars == <<gvars, hvars, kvars>>
vars == <<local_errors, api_errors, all_errors, mpc,
          enabled, cache, now, pc, req, facet, weights, result, resp, nreq, returned,
          relevance_score, faulted, client, got, calls, everset,
          last_request_time, rpc, wake, silent, issued, attempts,
          response, stats, grammar_score, call, ret, tfidf_vectorizer, extract>>

-----------------------------------------------------------------------------
(* Bounds of the merge model *)

\* longest list the local pass returns
MaxLocal == 3
\* longest list the remote pass returns
MaxRemote == 2
\* number of requests submitted in one run
MaxRequests == 2
\* the clock advances in steps of TickSeconds, MaxTicks times at most
TickSeconds == 1800
MaxTicks == 2
\* the clock of the remote passes advances second by second, up to MaxSeconds
MaxSeconds == 3

-----------------------------------------------------------------------------
(* schemas.Error *)

Error(t, s, p, c) == [type |-> t, severity |-> s, position |-> p, confidence |-> c]

\* positions the local rule checker reports: [offset, offset + errorLength]
LocalPositions == {<<0, 3>>, <<4, 7>>, <<8, 11>>, <<0, 9>>}

\* LanguageTool categories seen by the local pass
LtCategories == {"TYPOS", "GRAMMAR"}

\* _map_lt_severity
_map_lt_severity(category) ==
    IF category = "TYPOS" THEN "high"
    ELSE IF category = "GRAMMAR" THEN "medium"
    ELSE "low"

\* _map_lt_type
_map_lt_type(category) ==
    IF category = "TYPOS" THEN "spelling"
    ELSE IF category = "GRAMMAR" THEN "grammar"
    ELSE IF category = "PUNCTUATION" THEN "punctuation"
    ELSE IF category = "STYLE" THEN "style"
    ELSE "clarity"

\* the findings _run_local_analysis builds from LanguageTool matches (confidence 0.8)
LocalFindings ==
    {Error(_map_lt_type(cat), _map_lt_severity(cat), p, 80) :
        cat \in LtCategories, p \in LocalPositions}

\* the findings _run_api_analysis builds from the remote answer (confidence 0.9)
ApiFindings ==
    { Error("grammar", "low", <<0, 3>>, 90),
      Error("grammar", "high", <<0, 3>>, 90),
      Error("spelling", "medium", <<2, 5>>, 90),
      Error("grammar", "high", <<13, 16>>, 90) }

\* the source of a finding: the remote pass builds its errors with confidence 0.9
IsRemote(e) == e.confidence = 90

Abs(x) == IF x < 0 THEN -x ELSE x

-----------------------------------------------------------------------------
(* GrammarAnalyzer._merge_errors *)

\* pos_key = (error.position[0], error.position[1], error.type)
pos_key(error) == <<error.position[1], error.position[2], error.type>>

\* the tolerance of the overlap test: abs(...) < 5
OverlapTolerance == 5

\* abs(error.position[0] - e.position[0]) < 5 and abs(error.position[1] - e.position[1]) < 5
Overlaps(error, e) ==
    /\ Abs(error.position[1] - e.position[1]) < OverlapTolerance
    /\ Abs(error.position[2] - e.position[2]) < OverlapTolerance

SeqToSet(s) == {s[i] : i \in DOMAIN s}

\* mutant: API errors are dropped when they overlap an accepted error, too
RECURSIVE AddApiErrors_Overlap(_, _)
AddApiErrors_Overlap(acc, rest) ==
    IF rest = <<>> THEN acc
    ELSE LET error   == Head(rest)
             seen    == {pos_key(acc[i]) : i \in DOMAIN acc}
             overlap == \E i \in DOMAIN acc : Overlaps(error, acc[i])
         IN  AddApiErrors_Overlap(IF ~overlap /\ pos_key(error) \notin seen
                                      THEN Append(acc, error) ELSE acc,
                                  Tail(rest))

\* first loop: API errors are taken unless their pos_key was seen
RECURSIVE AddApiErrors(_, _)
AddApiErrors(acc, rest) ==
    IF rest = <<>> THEN acc
    ELSE LET error == Head(rest)
             seen  == {pos_key(acc[i]) : i \in DOMAIN acc}
         IN  AddApiErrors(IF pos_key(error) \notin seen THEN Append(acc, error) ELSE acc,
                          Tail(rest))

\* mutant: the overlap test looks at the most recently accepted error only
RECURSIVE AddLocalErrors_LastOnly(_, _)
AddLocalErrors_LastOnly(acc, rest) ==
    IF rest = <<>> THEN acc
    ELSE LET error   == Head(rest)
             seen    == {pos_key(acc[i]) : i \in DOMAIN acc}
             overlap == acc # <<>> /\ Overlaps(error, acc[Len(acc)])
         IN  AddLocalErrors_LastOnly(IF ~overlap /\ pos_key(error) \notin seen
                                         THEN Append(acc, error) ELSE acc,
                                     Tail(rest))

\* mutant: local errors are only dropped when their pos_key was seen
RECURSIVE AddLocalErrors_KeyOnly(_, _)
AddLocalErrors_KeyOnly(acc, rest) ==
    IF rest = <<>> THEN acc
    ELSE LET error == Head(rest)
             seen  == {pos_key(acc[i]) : i \in DOMAIN acc}
         IN  AddLocalErrors_KeyOnly(IF pos_key(error) \notin seen
                                        THEN Append(acc, error) ELSE acc,
                                    Tail(rest))

\* second loop: local errors are taken unless they overlap an accepted error
RECURSIVE AddLocalErrors(_, _)
AddLocalErrors(acc, rest) ==
    IF rest = <<>> THEN acc
    ELSE LET error   == Head(rest)
             seen    == {pos_key(acc[i]) : i \in DOMAIN acc}
             overlap == \E i \in DOMAIN acc : Overlaps(error, acc[i])
         IN  AddLocalErrors(IF ~overlap /\ pos_key(error) \notin seen
                                THEN Append(acc, error) ELSE acc,
                            Tail(rest))

\* insertion of e after every element whose start is <= its own (a stable sort step)
RECURSIVE InsertByStart(_, _)
InsertByStart(sorted, e) ==
    IF sorted = <<>> THEN <<e>>
    ELSE IF Head(sorted).position[1] <= e.position[1]
         THEN <<Head(sorted)>> \o InsertByStart(Tail(sorted), e)
         ELSE <<e>> \o sorted

\* all_errors.sort(key=lambda e: e.position[0]): Python's sort is stable
RECURSIVE SortByStartFrom(_, _)
SortByStartFrom(sorted, rest) ==
    IF rest = <<>> THEN sorted
    ELSE SortByStartFrom(InsertByStart(sorted, Head(rest)), Tail(rest))

\* mutant: the trailing sort is missing
SortByStart_NoSort(errors) == errors

SortByStart(errors) == SortByStartFrom(<<>>, errors)

_merge_errors(local, api) == SortByStart(AddLocalErrors(AddApiErrors(<<>>, api), local))

-----------------------------------------------------------------------------
(* The grammar facet's passes and merge (GrammarAnalyzer.analyze, lines 55-67) *)

\* _run_local_analysis: errors.append(Error(...)) for one more match
LocalPass ==
    /\ mpc = "collect"
    /\ Len(local_errors) < MaxLocal
    /\ \E e \in LocalFindings : local_errors' = Append(local_errors, e)
    /\ UNCHANGED <<api_errors, all_errors, mpc>>
    /\ UNCHANGED <<ovars, svars, rvars, xvars>>

\* _run_api_analysis: one more Error built from the remote answer
ApiPass ==
    /\ mpc = "collect"
    /\ Len(api_errors) < MaxRemote
    /\ \E e \in ApiFindings : api_errors' = Append(api_errors, e)
    /\ UNCHANGED <<local_errors, all_errors, mpc>>
    /\ UNCHANGED <<ovars, svars, rvars, xvars>>

\* all_errors = self._merge_errors(local_errors, api_errors)
Merge ==
    /\ mpc = "collect"
    /\ all_errors' = _merge_errors(local_errors, api_errors)
    /\ mpc' = "merged"
    /\ UNCHANGED <<local_errors, api_errors>>
    /\ UNCHANGED <<ovars, svars, rvars, xvars>>

NextMerge == LocalPass \/ ApiPass \/ Merge

-----------------------------------------------------------------------------
(* config.Settings *)

\* scoring weights, in tenths: grammar 0.4, coherence 0.3, relevance 0.3
grammar_weight == 4
coherence_weight == 3
relevance_weight == 3
\* normalize_weights divides the three by their total (1.0): the denominator, in tenths
get_total_weight == grammar_weight + coherence_weight + relevance_weight

min_text_length == 50
max_text_length == 50000
cache_ttl == 3600
gemini_rate_limit == 60
api_timeout == 30

-----------------------------------------------------------------------------
(* schemas.TextInput *)

\* Field(..., min_length=10, max_length=50000)
text_min_length == 10
text_max_length == 50000

\* texts a caller sends: raw length, and length after str.strip()
Texts ==
    { [id |-> "tiny",  len |-> 5,     stripped |-> 5],
      [id |-> "blank", len |-> 12,    stripped |-> 0],
      [id |-> "short", len |-> 20,    stripped |-> 20],
      [id |-> "essay", len |-> 60,    stripped |-> 60],
      [id |-> "huge",  len |-> 50001, stripped |-> 50001] }

\* topic: Optional[str]; None is written "" (both are falsy wherever the code tests it)
NoTopic == ""
Topics == {NoTopic, "ai"}

FacetNames == {"grammar", "coherence", "relevance"}

\* custom_weights: Optional[Dict[str, float]], a set of <<name, tenths>> pairs with
\* one pair per name; None is written {} (both are falsy at main.py:150)
CustomWeights ==
    { {},
      {<<"grammar", 10>>},
      {<<"grammar", 10>>, <<"coherence", 10>>, <<"relevance", 20>>},
      {<<"style", 10>>},
      {<<"grammar", -10>>},
      {<<"grammar", -6>>} }

\* topics: Optional[List[str]]; None is written <<>> (both are falsy at
\* relevance_analyzer.py:77)
TopicLists == {<<>>, <<"ml">>}

TextInput(t, tp, tps, cw) == [text |-> t, topic |-> tp, topics |-> tps, custom_weights |-> cw]

\* pydantic's validation of TextInput.text: the length constraints on the raw
\* string, then validate_text (not v.strip() -> ValueError)
TextInputValid(t) ==
    /\ text_min_length <= t.len
    /\ t.len <= text_max_length
    /\ t.stripped > 0

-----------------------------------------------------------------------------
(* CacheService *)

\* generate_key: sha256 of f"{text}:{topic if topic else ''}"
generate_key(text, topic) == <<text.id, IF topic = NoTopic THEN "" ELSE topic>>

Keys == {generate_key(t, tp) : t \in Texts, tp \in Topics}

CacheVersion == "1.0.0"

\* mutant: get returns an entry of which one field has not been written yet
CacheServiceGet_Torn(key) ==
    IF ~enabled \/ cache[key] = <<>> \/ cache[key][1].expire_time <= now
           \/ cache[key][1].version # "1.0.0"
        THEN <<>>
        ELSE <<[cache[key][1].result EXCEPT !.grammar = 0]>>

\* mutant: the version comparison is inverted
_is_cache_valid_Inverted(cached_data) == cached_data.version = "0.9.0"

\* _is_cache_valid: cached_data.get('version') != '1.0.0' -> False
_is_cache_valid(cached_data) == cached_data.version = "1.0.0"

\* len(self.cache): the rows of the store, the expired ones included
CacheLen == Cardinality({k \in Keys : cache[k] # <<>>})

\* `not self.enabled or not self.cache` (lines 59, 88, 120): the guard that
\* leaves get, set and delete at once.  self.cache is None when the service
\* is disabled; otherwise it is a diskcache.Cache, which has __len__ and no
\* __bool__, so its truth value is len(self.cache) != 0
ServiceOff == ~enabled \/ CacheLen = 0

\* diskcache.Cache.get: the entry under key unless it is absent or expired
DiskGet(key) ==
    IF cache[key] # <<>> /\ cache[key][1].expire_time > now THEN cache[key] ELSE <<>>

\* CacheService.get: the cached result, or <<>> for None
CacheServiceGet(key) ==
    IF ServiceOff THEN <<>>
    ELSE LET cached_data == DiskGet(key)
         IN  IF cached_data # <<>> /\ _is_cache_valid(cached_data[1])
                 THEN <<cached_data[1].result>>
                 ELSE <<>>

\* mutant: a miss leaves a row under the key at once
CacheAfterGet_Reserve(key) ==
    IF enabled /\ cache[key] = <<>>
        THEN [cache EXCEPT ![key] =
                  <<[result |-> <<>>, timestamp |-> now, version |-> "1.0.0",
                     expire_time |-> now + 3600]>>]
        ELSE cache

\* CacheService.get deletes an entry it finds but does not accept
CacheAfterGet(key) ==
    IF enabled /\ DiskGet(key) # <<>> /\ ~_is_cache_valid(DiskGet(key)[1])
        THEN [cache EXCEPT ![key] = <<>>]
        ELSE cache

\* diskcache.Cache.set removes the rows that have expired once the new row is in
Cull(c) ==
    [k \in Keys |-> IF c[k] # <<>> /\ c[k][1].expire_time < now THEN <<>> ELSE c[k]]

\* CacheService.set: cache.set(key, cache_data, expire=settings.cache_ttl);
\* result.dict() keeps every field of the result
CacheAfterSet(key, res) ==
    IF ServiceOff THEN cache
    ELSE Cull([cache EXCEPT ![key] =
                   <<[result |-> res, timestamp |-> now, version |-> CacheVersion,
                      expire_time |-> now + cache_ttl]>>])

\* CacheService.delete: self.cache.delete(key)
CacheAfterDelete(key) ==
    IF ServiceOff THEN cache ELSE [cache EXCEPT ![key] = <<>>]

\* where the store can fail during a call of the service: not at all, while the
\* guard reads len(self.cache) (before the try block), or inside the try block
Faults == {"none", "truth", "store"}

\* CacheService.get when the store fails as `fault` says: the exception of the
\* guard leaves get; one inside the try block is logged and None is returned
GetOutcome(key, fault) ==
    IF fault = "truth" /\ enabled
        THEN [raised |-> TRUE, value |-> <<>>, cache |-> cache]
    ELSE IF fault = "store" /\ ~ServiceOff
        THEN [raised |-> FALSE, value |-> <<>>, cache |-> cache]
    ELSE [raised |-> FALSE, value |-> CacheServiceGet(key), cache |-> CacheAfterGet(key)]

\* CacheService.set when the store fails as `fault` says: set returns whether
\* the result was stored
SetOutcome(key, res, fault) ==
    IF fault = "truth" /\ enabled
        THEN [raised |-> TRUE, stored |-> FALSE, cache |-> cache]
    ELSE IF fault = "store" /\ ~ServiceOff
        THEN [raised |-> FALSE, stored |-> FALSE, cache |-> cache]
    ELSE [raised |-> FALSE, stored |-> ~ServiceOff, cache |-> CacheAfterSet(key, res)]

-----------------------------------------------------------------------------
(* The facets, as analyze_text sees them *)

\* score: float = Field(..., ge=0, le=100): the scores the facets return here
Scores == {0, 100}

FacetPending == [st |-> "pending", score |-> 0]
FacetRaised == [st |-> "raised", score |-> 0]
FacetDone(sc) == [st |-> "done", score |-> sc]

\* RelevanceAnalyzer.analyze without a topic returns the neutral score 50.0
NeutralScore == 50

\* lines 74-78: all_topics
AllTopics(r) == (IF r.topic # NoTopic THEN <<r.topic>> ELSE <<>>) \o r.topics

\* the steps of RelevanceAnalyzer.analyze after the topics are known (lines
\* 92-107; the remote step when the Gemini service is configured, as it is here)
RelevanceSteps == {"key_terms", "coverage", "missing_aspects", "drift", "remote"}

ProvideTopic == "Please provide a topic to analyze relevance against"

RelevanceScore(sc, sugg, steps) == [score |-> sc, suggestions |-> sugg, steps |-> steps]

\* mutant: the analysis runs whether or not there is a topic
RelevanceAnalyze_NoShortcut(r, sc) == RelevanceScore(sc, {}, RelevanceSteps)

\* RelevanceAnalyzer.analyze when it returns: without a topic the neutral score
\* and one suggestion, at once; otherwise the steps, and the score sc they give
RelevanceAnalyze(r, sc) ==
    IF AllTopics(r) = <<>>
        THEN RelevanceScore(NeutralScore, {ProvideTopic}, {})
        ELSE RelevanceScore(sc, {}, RelevanceSteps)

\* what a facet's analyze() can do for request r: return a score or raise
FacetOutcomes(f, r) ==
    IF f = "relevance"
        THEN {FacetDone(RelevanceAnalyze(r, sc).score) : sc \in Scores}
                 \cup (IF AllTopics(r) = <<>> THEN {} ELSE {FacetRaised})
        ELSE {FacetDone(sc) : sc \in Scores} \cup {FacetRaised}

-----------------------------------------------------------------------------
(* analyze_text: weights and overall score (main.py 142-160, 172-173) *)

DefaultWeight(k) ==
    IF k = "grammar" THEN grammar_weight
    ELSE IF k = "coherence" THEN coherence_weight
    ELSE IF k = "relevance" THEN relevance_weight
    ELSE 0

\* weights.update(custom_weights): the names and the value under each
UpdatedNames(cw) == FacetNames \cup {p[1] : p \in cw}
UpdatedWeight(cw, k) ==
    IF \E p \in cw : p[1] = k THEN (CHOOSE p \in cw : p[1] = k)[2] ELSE DefaultWeight(k)

\* sum(weights.values()) over the names in S
RECURSIVE SumWeights(_, _)
SumWeights(cw, S) ==
    IF S = {} THEN 0
    ELSE LET k == CHOOSE x \in S : TRUE
         IN  UpdatedWeight(cw, k) + SumWeights(cw, S \ {k})

\* total = sum(weights.values())
WeightTotal(cw) == SumWeights(cw, UpdatedNames(cw))

\* mutant: the custom weights replace the defaults instead of being laid over them
ComputeWeights_Replace(cw) ==
    IF cw = {} THEN [num |-> [k \in FacetNames |-> DefaultWeight(k)],
                     den |-> get_total_weight]
    ELSE LET v(k) == IF \E p \in cw : p[1] = k THEN (CHOOSE p \in cw : p[1] = k)[2] ELSE 0
         IN  [num |-> [k \in FacetNames |-> v(k)],
              den |-> SumWeights(cw, {p[1] : p \in cw})]

\* the weights that enter the overall score: weight of k is num[k] / den
ComputeWeights(cw) ==
    IF cw = {} THEN [num |-> [k \in FacetNames |-> DefaultWeight(k)],
                     den |-> get_total_weight]
    ELSE [num |-> [k \in FacetNames |-> UpdatedWeight(cw, k)], den |-> WeightTotal(cw)]

\* round(n / d, 2) in hundredths, d # 0: to the nearest, a tie to the even one
Round2(n, d) ==
    LET nn == IF d < 0 THEN -n ELSE n
        dd == IF d < 0 THEN -d ELSE d
        q  == (nn * 100) \div dd
        r  == (nn * 100) - q * dd
    IN  IF 2 * r > dd THEN q + 1
        ELSE IF 2 * r < dd THEN q
        ELSE IF q % 2 = 0 THEN q ELSE q + 1

\* overall_score = sum of score * weight, rounded to 2 places; in hundredths
OverallScore(w, fc) ==
    Round2(fc.grammar.score * w.num["grammar"]
             + fc.coherence.score * w.num["coherence"]
             + fc.relevance.score * w.num["relevance"], w.den)

\* AnalysisResult: the scores of the result (overall_score in hundredths)
AnalysisResult(ov, fc) ==
    [overall_score |-> ov, grammar |-> fc.grammar.score,
     coherence |-> fc.coherence.score, relevance |-> fc.relevance.score]

\* overall_score: float = Field(..., ge=0, le=100)
OverallValid(ov) == 0 <= ov /\ ov <= 100 * 100

-----------------------------------------------------------------------------
(* analyze_text (POST /analyze) *)

NoWeights == [num |-> [k \in FacetNames |-> 0], den |-> 0]
NoFacets == [k \in FacetNames |-> FacetPending]
Response(kind, res, cached) == [kind |-> kind, result |-> res, cached |-> cached]

\* the store is a directory on disk that outlives the process: it is empty, or
\* holds one unexpired row an earlier run left, written by this version of the
\* program or by an older one
LegacyKey == generate_key(CHOOSE t \in Texts : t.id = "essay", "ai")
LegacyResult == [overall_score |-> 5000, grammar |-> 50, coherence |-> 50, relevance |-> 50]
LegacyVersions == {"0.9.0", CacheVersion}
InitialCaches ==
    {[k \in Keys |-> <<>>]}
        \cup {[k \in Keys |->
                  IF k = LegacyKey
                      THEN <<[result |-> LegacyResult, timestamp |-> 0, version |-> v,
                              expire_time |-> cache_ttl]>>
                      ELSE <<>>] : v \in LegacyVersions}

\* callers of the cache service that are under way at the same time
Clients == {"a", "b"}

\* the GeminiService objects: each analyzer builds its own in __init__
\* (grammar_analyzer.py:34, coherence_analyzer.py:26)
Services == {"grammar", "coherence"}

\* the remote passes under way: the grammar facets of two requests in flight
\* and the coherence facet of the first of them
Callers == {"g1", "g2", "k1"}
ServiceOf(c) == IF c = "k1" THEN "coherence" ELSE "grammar"

\* self.min_request_interval = 60 / settings.gemini_rate_limit, in seconds
min_request_interval == 60 \div gemini_rate_limit

\* self.last_request_time = 0: the epoch; the clock of the model starts with the
\* service, more than an interval later
Epoch == 0 - min_request_interval

\* analyze_with_retry(prompt, max_retries=3)
max_retries == 3

\* no helper function was called yet
NoCall == [fn |-> "none"]

\* the requests inside the relevance facet at the same time
Requests == {"r1", "r2"}

\* TfidfVectorizer(...) as __init__ builds it: neither vocabulary_ nor idf_ yet
Unfitted == [vocabulary |-> "none", idf |-> "none"]

\* a request that has not entered _extract_key_terms
NotStarted ==
    [pc |-> "idle", text |-> "none", matrix |-> "none",
     key_terms |-> [of |-> "none", by |-> "none"]]

\* state after construction: no findings collected, no request, the store as
\* it was left on disk
Init ==
    /\ local_errors = <<>>
    /\ api_errors = <<>>
    /\ all_errors = <<>>
    /\ mpc = "collect"
    /\ enabled \in BOOLEAN
    /\ cache \in InitialCaches
    /\ now = 0
    /\ pc = "idle"
    /\ req = <<>>
    /\ facet = NoFacets
    /\ weights = NoWeights
    /\ result = <<>>
    /\ resp = Response("none", <<>>, FALSE)
    /\ nreq = 0
    /\ returned = [k \in Keys |-> <<>>]
    /\ relevance_score = <<>>
    /\ faulted = {}
    /\ client = [c \in Clients |-> [pc |-> "idle", key |-> LegacyKey, row |-> <<>>]]
    /\ got = <<>>
    /\ calls = [k \in Keys |-> <<>>]
    /\ everset = [k \in Keys |-> {cache[k][i].result : i \in DOMAIN cache[k]}]
    /\ last_request_time = [s \in Services |-> Epoch]
    /\ rpc = [c \in Callers |-> "idle"]
    /\ wake = [c \in Callers |-> 0]
    /\ silent = [c \in Callers |-> FALSE]
    /\ issued = {}
    /\ attempts = [c \in Callers |-> 0]
    /\ response = <<>>
    /\ stats = <<>>
    /\ grammar_score = <<>>
    /\ call = NoCall
    /\ ret = <<>>
    /\ tfidf_vectorizer = Unfitted
    /\ extract = [r \in Requests |-> NotStarted]

\* the same with the cache enabled and the store empty
InitEmpty ==
    /\ local_errors = <<>>
    /\ api_errors = <<>>
    /\ all_errors = <<>>
    /\ mpc = "collect"
    /\ enabled = TRUE
    /\ cache = [k \in Keys |-> <<>>]
    /\ now = 0
    /\ pc = "idle"
    /\ req = <<>>
    /\ facet = NoFacets
    /\ weights = NoWeights
    /\ result = <<>>
    /\ resp = Response("none", <<>>, FALSE)
    /\ nreq = 0
    /\ returned = [k \in Keys |-> <<>>]
    /\ relevance_score = <<>>
    /\ faulted = {}
    /\ client = [c \in Clients |-> [pc |-> "idle", key |-> LegacyKey, row |-> <<>>]]
    /\ got = <<>>
    /\ calls = [k \in Keys |-> <<>>]
    /\ everset = [k \in Keys |-> {}]
    /\ last_request_time = [s \in Services |-> Epoch]
    /\ rpc = [c \in Callers |-> "idle"]
    /\ wake = [c \in Callers |-> 0]
    /\ silent = [c \in Callers |-> FALSE]
    /\ issued = {}
    /\ attempts = [c \in Callers |-> 0]
    /\ response = <<>>
    /\ stats = <<>>
    /\ grammar_score = <<>>
    /\ call = NoCall
    /\ ret = <<>>
    /\ tfidf_vectorizer = Unfitted
    /\ extract = [r \in Requests |-> NotStarted]

\* time passes between requests
Tick ==
    /\ pc = "idle"
    /\ now < MaxTicks * TickSeconds
    /\ now' = now + TickSeconds
    /\ UNCHANGED <<enabled, cache, pc, req, facet, weights, result, resp, nreq, returned, relevance_score, faulted>>
    /\ UNCHANGED <<mvars, svars, rvars, xvars>>

\* a caller posts a request with a text of T, a topics list of L and custom
\* weights of W: FastAPI
\* builds the TextInput, and answers 422 itself when the model rejects it;
\* otherwise analyze_text starts
Post(T, L, W) ==
    /\ pc = "idle"
    /\ nreq' = nreq + 1
    /\ \E t \in T, tp \in Topics, tps \in L, cw \in W :
           /\ req' = <<TextInput(t, tp, tps, cw)>>
           /\ IF TextInputValid(t)
                  THEN pc' = "get" /\ resp' = Response("none", <<>>, FALSE)
                  ELSE pc' = "done" /\ resp' = Response("422", <<>>, FALSE)
    /\ UNCHANGED <<facet, weights, result>>
    /\ UNCHANGED <<enabled, cache, now, returned, relevance_score, faulted>>
    /\ UNCHANGED <<mvars, svars, rvars, xvars>>

\* one request, of any text and any custom weights
Submit == nreq = 0 /\ Post(Texts, TopicLists, CustomWeights)

\* the texts, topics lists and custom weights of the requests that are posted
\* repeatedly
RepeatTexts == {t \in Texts : t.id = "essay"}
RepeatTopicLists == TopicLists
RepeatWeights == {{}}

\* requests posted one after the other
Resubmit == nreq < MaxRequests /\ Post(RepeatTexts, RepeatTopicLists, RepeatWeights)

CurrentKey == generate_key(req[1].text, req[1].topic)

\* lines 114-120: the cache is asked first; a hit is returned as it is; an
\* exception that leaves cache_service.get ends in HTTP 500 (lines 200-202)
CacheGet ==
    /\ pc = "get"
    /\ \E fault \in Faults :
           LET out == GetOutcome(CurrentKey, fault)
           IN  /\ IF out.raised
                      THEN pc' = "done" /\ resp' = Response("500", <<>>, FALSE)
                      ELSE IF out.value # <<>>
                          THEN pc' = "done" /\ resp' = Response("200", out.value, TRUE)
                          ELSE pc' = "facets" /\ resp' = resp
               /\ cache' = out.cache
               /\ faulted' = IF fault = "none" THEN faulted
                                               ELSE faulted \cup {<<"get", fault>>}
    /\ UNCHANGED <<enabled, now, req, facet, weights, result, nreq, returned, relevance_score>>
    /\ UNCHANGED <<mvars, svars, rvars, xvars>>

\* lines 127-137: one of the three facet coroutines runs to its end
FacetRun ==
    /\ pc = "facets"
    /\ \E f \in FacetNames :
           /\ facet[f].st = "pending"
           /\ \E o \in FacetOutcomes(f, req[1]) :
                  /\ facet' = [facet EXCEPT ![f] = o]
                  /\ relevance_score' =
                         IF f = "relevance" /\ o.st = "done"
                             THEN <<RelevanceAnalyze(req[1], o.score)>>
                             ELSE relevance_score
    /\ UNCHANGED <<enabled, cache, now, pc, req, weights, result, resp, nreq, returned, faulted>>
    /\ UNCHANGED <<mvars, svars, rvars, xvars>>

\* asyncio.gather returns once the three facets have returned
GatherReturn ==
    /\ pc = "facets"
    /\ \A f \in FacetNames : facet[f].st = "done"
    /\ pc' = "aggregate"
    /\ UNCHANGED <<enabled, cache, now, req, facet, weights, result, resp, nreq, returned, relevance_score, faulted>>
    /\ UNCHANGED <<mvars, svars, rvars, xvars>>

\* asyncio.gather raises the exception of a facet; lines 200-202 turn it into HTTP 500
GatherRaise ==
    /\ pc = "facets"
    /\ \E f \in FacetNames : facet[f].st = "raised"
    /\ pc' = "done"
    /\ resp' = Response("500", <<>>, FALSE)
    /\ UNCHANGED <<enabled, cache, now, req, facet, weights, result, nreq, returned, relevance_score, faulted>>
    /\ UNCHANGED <<mvars, svars, rvars, xvars>>

\* the caller goes away while analyze_text waits in asyncio.gather: the task is
\* cancelled there, the facets are cancelled with it, and CancelledError is not
\* an Exception, so lines 200-202 do not catch it
Abort ==
    /\ pc = "facets"
    /\ pc' = "done"
    /\ resp' = Response("aborted", <<>>, FALSE)
    /\ UNCHANGED <<enabled, cache, now, req, facet, weights, result, nreq, returned, relevance_score, faulted>>
    /\ UNCHANGED <<mvars, svars, rvars, xvars>>

\* lines 142-189: weights, overall score, the AnalysisResult; a ZeroDivisionError
\* or the result's validation error ends in HTTP 500 (lines 200-202)
Aggregate ==
    /\ pc = "aggregate"
    /\ LET w == ComputeWeights(req[1].custom_weights)
       IN  IF w.den = 0
               THEN /\ weights' = weights
                    /\ result' = <<>>
                    /\ pc' = "done"
                    /\ resp' = Response("500", <<>>, FALSE)
               ELSE /\ weights' = w
                    /\ IF OverallValid(OverallScore(w, facet))
                           THEN /\ result' = <<AnalysisResult(OverallScore(w, facet), facet)>>
                                /\ pc' = "set"
                                /\ resp' = resp
                           ELSE /\ result' = <<>>
                                /\ pc' = "done"
                                /\ resp' = Response("500", <<>>, FALSE)
    /\ UNCHANGED <<enabled, cache, now, req, facet, nreq, returned, relevance_score, faulted>>
    /\ UNCHANGED <<mvars, svars, rvars, xvars>>

\* lines 191-192: await cache_service.set(cache_key, result); an exception that
\* leaves it ends in HTTP 500 (lines 200-202)
CacheSet ==
    /\ pc = "set"
    /\ \E fault \in Faults :
           LET out == SetOutcome(CurrentKey, result[1], fault)
           IN  /\ IF out.raised
                      THEN pc' = "done" /\ resp' = Response("500", <<>>, FALSE)
                      ELSE pc' = "return" /\ resp' = resp
               /\ cache' = out.cache
               /\ faulted' = IF fault = "none" THEN faulted
                                               ELSE faulted \cup {<<"set", fault>>}
    /\ UNCHANGED <<enabled, now, req, facet, weights, result, nreq, returned, relevance_score>>
    /\ UNCHANGED <<mvars, svars, rvars, xvars>>

\* lines 194-198: the result is put in the history and returned
Return ==
    /\ pc = "return"
    /\ resp' = Response("200", result, FALSE)
    /\ pc' = "done"
    /\ UNCHANGED <<enabled, cache, now, req, facet, weights, result, nreq, returned, relevance_score, faulted>>
    /\ UNCHANGED <<mvars, svars, rvars, xvars>>

\* the response is out: the request and the locals of analyze_text are gone;
\* `returned` notes a freshly computed result the caller got, and when
Finish ==
    /\ pc = "done"
    /\ returned' = IF resp.kind = "200" /\ ~resp.cached
                       THEN [returned EXCEPT ![CurrentKey] =
                                 <<[result |-> resp.result[1], at |-> now,
                                    clean |-> faulted = {}]>>]
                       ELSE returned
    /\ pc' = "idle"
    /\ req' = <<>>
    /\ facet' = NoFacets
    /\ weights' = NoWeights
    /\ result' = <<>>
    /\ resp' = Response("none", <<>>, FALSE)
    /\ faulted' = {}
    /\ relevance_score' = <<>>
    /\ UNCHANGED <<enabled, cache, now, nreq>>
    /\ UNCHANGED <<mvars, svars, rvars, xvars>>

NextAnalyze ==
    Tick \/ Submit \/ CacheGet \/ FacetRun \/ GatherReturn \/ GatherRaise \/ Abort
        \/ Aggregate \/ CacheSet \/ Return \/ Finish

\* one request through analyze_text
Spec == Init /\ [][NextAnalyze]_vars

NextRepeat ==
    Tick \/ Resubmit \/ CacheGet \/ FacetRun \/ GatherReturn \/ GatherRaise \/ Abort
        \/ Aggregate \/ CacheSet \/ Return \/ Finish

\* several requests, one after the other, through analyze_text and the cache
SpecCache == Init /\ [][NextRepeat]_vars
\* the grammar facet's passes and merge
SpecMerge == InitEmpty /\ [][NextMerge]_vars

-----------------------------------------------------------------------------
(* CacheService called by several callers at once (cache_service.py 50-144) *)

\* the keys and the results the callers use
StoreKeys == {LegacyKey, generate_key(CHOOSE t \in Texts : t.id = "essay", NoTopic)}
StoreResults ==
    { [overall_score |-> 0, grammar |-> 0, coherence |-> 0, relevance |-> 0],
      [overall_score |-> 10000, grammar |-> 100, coherence |-> 100, relevance |-> 100] }

Idle == [pc |-> "idle", key |-> LegacyKey, row |-> <<>>]

\* what a get that has returned left behind: the key, the row that was under
\* it, the value returned (<<>> is None), whether an exception left get, where
\* the store failed, and the time
Got(key, row, value, raised, fault) ==
    <<[key |-> key, row |-> row, value |-> value, raised |-> raised,
       fault |-> fault, at |-> now]>>

\* the part of the state these actions leave alone
StoreFrame ==
    /\ UNCHANGED <<enabled, now, pc, req, facet, weights, result, resp, nreq, returned,
                   relevance_score, faulted>>
    /\ UNCHANGED <<mvars, rvars, xvars>>

\* set(key, result), lines 78-109
StoreSet ==
    \E k \in StoreKeys, v \in StoreResults, fault \in Faults :
        LET out == SetOutcome(k, v, fault)
        IN  /\ cache' = out.cache
            /\ calls' = IF enabled /\ fault = "none"
                            THEN [calls EXCEPT ![k] = <<[value |-> v, at |-> now]>>]
                            ELSE calls
            /\ everset' = IF out.stored THEN [everset EXCEPT ![k] = @ \cup {v}] ELSE everset
            /\ got' = <<>>
            /\ UNCHANGED client
            /\ StoreFrame

\* get(key), lines 59-68 and 73-76: the guard, self.cache.get(key) and the
\* validity test; get returns here unless it found a row it does not accept
StoreGetRead ==
    \E c \in Clients, k \in StoreKeys, fault \in Faults :
        LET out == GetOutcome(k, fault)
            cached_data == DiskGet(k)
            rejects == /\ ~(fault = "truth" /\ enabled) /\ fault # "store"
                       /\ ~ServiceOff
                       /\ cached_data # <<>> /\ ~_is_cache_valid(cached_data[1])
        IN  /\ client[c].pc = "idle"
            /\ IF rejects
                   THEN /\ client' = [client EXCEPT ![c] =
                                         [pc |-> "delete", key |-> k, row |-> cache[k]]]
                        /\ got' = <<>>
                   ELSE /\ client' = client
                        /\ got' = Got(k, cache[k], out.value, out.raised, fault)
            /\ UNCHANGED <<cache, calls, everset>>
            /\ StoreFrame

\* get(key), lines 69-76: await self.delete(key), and None is returned; an
\* exception of delete's guard is caught by get, one of the store by delete
StoreGetDelete ==
    \E c \in Clients, fault \in Faults :
        LET k == client[c].key
            deletes == fault = "none" /\ ~ServiceOff
        IN  /\ client[c].pc = "delete"
            /\ cache' = IF deletes THEN CacheAfterDelete(k) ELSE cache
            /\ calls' = IF deletes THEN [calls EXCEPT ![k] = <<>>] ELSE calls
            /\ got' = Got(k, client[c].row, <<>>, FALSE, fault)
            /\ client' = [client EXCEPT ![c] = Idle]
            /\ UNCHANGED everset
            /\ StoreFrame

\* delete(key), lines 111-127
StoreDelete ==
    \E k \in StoreKeys, fault \in Faults :
        /\ cache' = IF fault = "none" THEN CacheAfterDelete(k) ELSE cache
        /\ calls' = [calls EXCEPT ![k] = <<>>]
        /\ got' = <<>>
        /\ UNCHANGED <<client, everset>>
        /\ StoreFrame

\* clear(), lines 129-144
StoreClear ==
    /\ cache' = IF ServiceOff THEN cache ELSE [k \in Keys |-> <<>>]
    /\ calls' = [k \in Keys |-> <<>>]
    /\ got' = <<>>
    /\ UNCHANGED <<client, everset>>
    /\ StoreFrame

NextStore == Tick \/ StoreSet \/ StoreGetRead \/ StoreGetDelete \/ StoreDelete \/ StoreClear

\* the cache service under calls of several callers
SpecStore == Init /\ [][NextStore]_vars

-----------------------------------------------------------------------------
(* The remote pass of a facet: GeminiService.analyze_text called from         *)
(* _run_api_analysis (grammar_analyzer.py 163-181) and _get_api_feedback      *)
(* (coherence_analyzer.py 255-260)                                            *)

RemoteFrame ==
    /\ UNCHANGED <<enabled, cache, pc, req, facet, weights, result, resp, nreq, returned,
                   relevance_score, faulted>>
    /\ UNCHANGED <<mvars, svars, xvars>>

\* loop.run_in_executor(None, lambda: self.model.generate_content(...)): the
\* request of remote pass c leaves now; the remote service answers it or not
Send(c) ==
    /\ rpc' = [rpc EXCEPT ![c] = "inflight"]
    /\ issued' = issued \cup {<<c, now>>}
    /\ attempts' = [attempts EXCEPT ![c] = @ + 1]
    /\ \E s \in BOOLEAN : silent' = [silent EXCEPT ![c] = s]

\* a facet awaits self.gemini_service.analyze_text(prompt): _enforce_rate_limit
\* (lines 93-100) sleeps when the last answer is younger than the interval,
\* otherwise the request is sent at once
RemoteCall ==
    \E c \in Callers :
        LET time_since_last_request == now - last_request_time[ServiceOf(c)]
            wait_time == min_request_interval - time_since_last_request
        IN  /\ rpc[c] = "idle"
            /\ now <= MaxSeconds
            /\ IF time_since_last_request < min_request_interval
                   THEN /\ rpc' = [rpc EXCEPT ![c] = "sleeping"]
                        /\ wake' = [wake EXCEPT ![c] = now + wait_time]
                        /\ UNCHANGED <<silent, issued, attempts>>
                   ELSE /\ Send(c)
                        /\ UNCHANGED wake
            /\ UNCHANGED <<last_request_time, now>>
            /\ RemoteFrame

\* asyncio.sleep(wait_time) is over: the request is sent without another look
\* at last_request_time
RemoteWake ==
    \E c \in Callers :
        /\ rpc[c] = "sleeping"
        /\ now >= wake[c]
        /\ Send(c)
        /\ UNCHANGED <<last_request_time, wake, now>>
        /\ RemoteFrame

\* lines 59-66: the remote service answers; last_request_time is set and the
\* text returned, or the exception is raised again and the facet's except
\* clause returns its empty result (grammar_analyzer.py 179-181)
RemoteRespond ==
    \E c \in Callers, ok \in BOOLEAN :
        /\ rpc[c] = "inflight"
        /\ ~silent[c]
        /\ IF ok
               THEN /\ last_request_time' = [last_request_time EXCEPT ![ServiceOf(c)] = now]
                    /\ rpc' = [rpc EXCEPT ![c] = "returned"]
               ELSE /\ last_request_time' = last_request_time
                    /\ rpc' = [rpc EXCEPT ![c] = "fallback"]
        /\ UNCHANGED <<wake, silent, issued, attempts, now>>
        /\ RemoteFrame

\* a second passes
Second ==
    /\ now < MaxSeconds
    /\ now' = now + 1
    /\ UNCHANGED rvars
    /\ RemoteFrame

\* settings.api_timeout seconds pass; the clock runs on until every request
\* that was sent is at least that old
Later ==
    /\ now <= MaxSeconds \/ \E e \in issued : now < e[2] + api_timeout
    /\ now' = now + api_timeout
    /\ UNCHANGED rvars
    /\ RemoteFrame

NextRemote == RemoteCall \/ RemoteWake \/ RemoteRespond \/ Second \/ Later

\* the remote passes; the event loop runs every coroutine that can run, the
\* remote service answers the calls it does not leave unanswered, time passes
SpecRemote ==
    InitEmpty /\ [][NextRemote]_vars
        /\ WF_vars(RemoteCall) /\ WF_vars(RemoteWake) /\ WF_vars(RemoteRespond)
        /\ WF_vars(Second) /\ WF_vars(Later)

-----------------------------------------------------------------------------
(* The grammar facet as a whole (GrammarAnalyzer.analyze) *)

ErrorTypes == {"spelling", "grammar", "punctuation", "style", "clarity"}
Severities == {"low", "medium", "high", "critical"}

\* what one dict of the remote answer can hold: "typo" is no ErrorType and
\* "severe" no Severity; a position is two integers in any order
RawTypes == {"grammar", "typo"}
RawSeverities == {"low", "critical", "severe"}
RawPositions == {<<0, 3>>, <<9, 4>>}
RawFindings == [type : RawTypes, severity : RawSeverities, position : RawPositions]

\* the lists of at most MaxRemote dicts a remote answer can hold
RawLists == UNION {[1..n -> RawFindings] : n \in 0..MaxRemote}

\* what self.gemini_service.analyze_text(prompt) can do: raise, answer with a
\* text without brackets, with brackets around something json.loads refuses,
\* or with a JSON array of dicts
Responses ==
    {[kind |-> k, data |-> <<>>] : k \in {"raise", "no_json", "bad_json"}}
        \cup {[kind |-> "json", data |-> d] : d \in RawLists}

\* word counts of the texts in hand: \b\w+(?:'\w+)?\b finds no word in a text
\* of punctuation alone
WordCounts == {0, 40, 150}

\* _parse_api_response: the list between the first '[' and the last ']', or
\* [] when there is none or json.loads raises
_parse_api_response(r) == IF r.kind = "json" THEN r.data ELSE <<>>

\* Error(type=ErrorType(...), severity=Severity(...), position=...) raises for
\* a value outside the enumeration or a position that is not two integers
ErrorRaises(e) ==
    \/ e.type \notin ErrorTypes
    \/ e.severity \notin Severities
    \/ Len(e.position) # 2

\* _run_api_analysis that leaves out the dicts it cannot convert
_run_api_analysis_SkipInvalid(r) ==
    IF r.kind = "raise" THEN <<>>
    ELSE LET errors_data == _parse_api_response(r)
         IN  SelectSeq([i \in DOMAIN errors_data |->
                           Error(errors_data[i].type, errors_data[i].severity,
                                 errors_data[i].position, 90)],
                       LAMBDA e : ~ErrorRaises(e))

\* _run_api_analysis: the whole body is inside try, and except returns []
_run_api_analysis(r) ==
    IF r.kind = "raise" THEN <<>>
    ELSE LET errors_data == _parse_api_response(r)
         IN  IF \E i \in DOMAIN errors_data : ErrorRaises(errors_data[i])
                 THEN <<>>
                 ELSE [i \in DOMAIN errors_data |->
                          Error(errors_data[i].type, errors_data[i].severity,
                                errors_data[i].position, 90)]

\* severity_weights, counted in halves
SeverityWeight2(sev) ==
    IF sev = "low" THEN 1
    ELSE IF sev = "medium" THEN 2
    ELSE IF sev = "high" THEN 4
    ELSE IF sev = "critical" THEN 6
    ELSE 2

RECURSIVE TotalPenalty2(_)
\* total_penalty, counted in halves
TotalPenalty2(errors) ==
    IF errors = <<>> THEN 0
    ELSE SeverityWeight2(Head(errors).severity) + TotalPenalty2(Tail(errors))

\* _calculate_score, in hundredths: 100 for a text without words; otherwise
\* round(max(0, 100 - 20 * total_penalty / max(word_count / 50, 1)), 2)
_calculate_score(errors, word_count) ==
    IF word_count = 0 THEN 100 * 100
    ELSE LET d == IF word_count > 50 THEN word_count ELSE 50
             n == 100 * d - 500 * TotalPenalty2(errors)
         IN  IF n <= 0 THEN 0 ELSE Round2(n, d)

\* the first n entries of a list: s[:n]
Take(s, n) == SubSeq(s, 1, IF Len(s) < n THEN Len(s) ELSE n)

\* a list of one entry when the condition holds, of none otherwise
When(cond, x) == IF cond THEN <<x>> ELSE <<>>

\* suggestions[:5] of the three _generate_suggestions
MaxSuggestions == 5

ReviewStructure == "Review sentence structure and ensure subject-verb agreement"
UseSpellCheck == "Use spell-check and proofread carefully for typos"
CheckPunctuation == "Check punctuation, especially comma usage and sentence endings"
VarySentences == "Consider varying sentence structure for better flow"
SimplifySentences == "Simplify complex sentences for better readability"
BreakDownIdeas == "Consider breaking down complex ideas into simpler sentences"
ShorterSentences == "Try using shorter sentences to improve readability"

\* len(errors) > 10
ManyErrors == 10

\* GrammarAnalyzer._generate_suggestions: one suggestion per error type found,
\* one for more than ten errors, one for an average sentence of more than 25
\* words (long), and the first five of them
GrammarSuggestions(error_types, count, long) ==
    Take(When("grammar" \in error_types, ReviewStructure)
           \o When("spelling" \in error_types, UseSpellCheck)
           \o When("punctuation" \in error_types, CheckPunctuation)
           \o When("style" \in error_types, VarySentences)
           \o When("clarity" \in error_types, SimplifySentences)
           \o When(count > ManyErrors, BreakDownIdeas)
           \o When(long, ShorterSentences),
         MaxSuggestions)

\* GrammarScore(score=..., errors=..., error_density=..., suggestions=...):
\* the score in hundredths, error_density as the fraction
\* len(all_errors) * 100 / max(word_count, 1)
GrammarScore(errors, word_count, long) ==
    [score |-> _calculate_score(errors, word_count),
     errors |-> errors,
     error_density |-> <<Len(errors) * 100, IF word_count > 1 THEN word_count ELSE 1>>,
     suggestions |-> GrammarSuggestions({errors[i].type : i \in DOMAIN errors},
                                        Len(errors), long)]

GrammarFrame == UNCHANGED <<ovars, svars, rvars, hvars, kvars>>

\* stats = self.get_text_statistics(processed_text)
Statistics ==
    /\ stats = <<>>
    /\ grammar_score = <<>>
    /\ \E w \in WordCounts : stats' = <<[word_count |-> w]>>
    /\ UNCHANGED <<mvars, response, grammar_score>>
    /\ GrammarFrame

\* api_errors = await self._run_api_analysis(processed_text), when the remote
\* pass is enabled, a service exists and the text is shorter than 2000
ApiAnalysis ==
    /\ mpc = "collect"
    /\ response = <<>>
    /\ \E r \in Responses :
        /\ response' = <<r>>
        /\ api_errors' = _run_api_analysis(r)
    /\ UNCHANGED <<local_errors, all_errors, mpc, stats, grammar_score>>
    /\ GrammarFrame

\* score, suggestions and the GrammarScore returned (lines 69-89)
GrammarReturn ==
    /\ mpc = "merged"
    /\ stats # <<>>
    /\ grammar_score = <<>>
    /\ \E long \in BOOLEAN :
        grammar_score' = <<GrammarScore(all_errors, stats[1].word_count, long)>>
    /\ UNCHANGED <<mvars, response, stats>>
    /\ GrammarFrame

NextGrammar == Statistics \/ LocalPass \/ ApiAnalysis \/ Merge \/ GrammarReturn

SpecGrammar == InitEmpty /\ [][NextGrammar]_vars

-----------------------------------------------------------------------------
(* The helper functions of main.py and of the analyzers: one call of one of   *)
(* them, on arguments drawn from small sets                                 *)

HelperFrame == UNCHANGED <<mvars, ovars, svars, rvars, gvars, kvars>>

\* facet scores in hundredths (89.99 is 8999): the coherence and the relevance
\* score are unrounded floats, the grammar score is rounded to two places
Scores100 == {5000, 6999, 7000, 8999, 9000, 10000}

\* the custom weights of the requests whose summary is computed
SummaryWeights == {{}, {<<"grammar", 10>>}}

\* the scores dict of _generate_feedback_summary, in its insertion order
FacetOrder == <<"grammar", "coherence", "relevance">>

\* the bands of _generate_feedback_summary, for a score of n / d hundredths, d > 0
Level(n, d) ==
    IF n >= 9000 * d THEN "excellent"
    ELSE IF n >= 8000 * d THEN "very good"
    ELSE IF n >= 7000 * d THEN "good"
    ELSE IF n >= 6000 * d THEN "fair"
    ELSE "needs improvement"

\* min(scores.items(), key=lambda x: x[1]): the first of the smallest
Weakest(scores) ==
    FacetOrder[CHOOSE i \in 1..3 :
        /\ \A j \in 1..3 : scores[FacetOrder[i]] <= scores[FacetOrder[j]]
        /\ \A j \in 1..(i - 1) : scores[FacetOrder[j]] > scores[FacetOrder[i]]]

\* max(scores.items(), key=lambda x: x[1]): the first of the largest
Strongest(scores) ==
    FacetOrder[CHOOSE i \in 1..3 :
        /\ \A j \in 1..3 : scores[FacetOrder[i]] >= scores[FacetOrder[j]]
        /\ \A j \in 1..(i - 1) : scores[FacetOrder[j]] < scores[FacetOrder[i]]]

\* strongest[1] - weakest[1] > 20, in hundredths
BalanceGap == 2000

\* _generate_feedback_summary(overall_score, grammar, coherence, relevance) for
\* overall_score = n / d hundredths: the band named, the figure printed with
\* one decimal (in tenths), and the facets named, if any
_generate_feedback_summary(n, d, scores) ==
    LET weakest == Weakest(scores)
        strongest == Strongest(scores)
        apart == scores[strongest] - scores[weakest] > BalanceGap
    IN  [level |-> Level(n, d),
         shown |-> Round2(n, 1000 * d),
         balanced |-> ~apart,
         strongest |-> IF apart THEN <<strongest>> ELSE <<>>,
         weakest |-> IF apart THEN <<weakest>> ELSE <<>>]

\* analyze_text, lines 143-174: the weighted sum, the summary made from it and
\* the overall_score=round(overall_score, 2) of the result
FeedbackSummary ==
    /\ call = NoCall
    /\ \E g \in Scores100, c \in Scores100, r \in Scores100, cw \in SummaryWeights :
        LET scores == [grammar |-> g, coherence |-> c, relevance |-> r]
            w == ComputeWeights(cw)
            n == g * w.num["grammar"] + c * w.num["coherence"] + r * w.num["relevance"]
        IN  /\ call' = [fn |-> "_generate_feedback_summary",
                        args |-> [scores |-> scores, custom_weights |-> cw]]
            /\ ret' = <<[feedback_summary |-> _generate_feedback_summary(n, w.den, scores),
                         overall_score |-> Round2(n, 100 * w.den)]>>
    /\ HelperFrame

\* suggestion strings the facets hand to _identify_improvements
SuggestionPool == {"s1", "s2", "s3", "s4"}

\* the suggestion lists of one facet, at most MaxPerFacet long
MaxPerFacet == 2
SuggestionLists == UNION {[1..n -> SuggestionPool] : n \in 0..MaxPerFacet}

\* len(improvements) >= 3
MaxImprovements == 3

\* the loop of _identify_improvements without its end at three
RECURSIVE CollectAll(_, _)
CollectAll(improvements, rest) ==
    IF rest = <<>> THEN improvements
    ELSE IF \E i \in DOMAIN improvements : improvements[i] = Head(rest)
             THEN CollectAll(improvements, Tail(rest))
             ELSE CollectAll(Append(improvements, Head(rest)), Tail(rest))

\* the pooled list cut to three before the duplicates are removed
Collect_CutFirst(improvements, rest) == CollectAll(improvements, Take(rest, MaxImprovements))

\* the loop of _identify_improvements over all_suggestions: a suggestion not
\* seen before is appended, and the loop ends at three
RECURSIVE Collect(_, _)
Collect(improvements, rest) ==
    IF rest = <<>> \/ Len(improvements) >= MaxImprovements THEN improvements
    ELSE IF \E i \in DOMAIN improvements : improvements[i] = Head(rest)
             THEN Collect(improvements, Tail(rest))
             ELSE Collect(Append(improvements, Head(rest)), Tail(rest))

_identify_improvements(grammar, coherence, relevance) ==
    Collect(<<>>, grammar \o coherence \o relevance)

\* improvements = _identify_improvements(grammar_score, coherence_score, relevance_score)
IdentifyImprovements ==
    /\ call = NoCall
    /\ \E g \in SuggestionLists, c \in SuggestionLists, r \in SuggestionLists :
        /\ call' = [fn |-> "_identify_improvements",
                    args |-> [grammar |-> g, coherence |-> c, relevance |-> r]]
        /\ ret' = <<_identify_improvements(g, c, r)>>
    /\ HelperFrame

\* suggestions the remote answer can carry
ApiSuggestions == {"api1", "api2", "api3"}

\* the lists under 'specific_improvements' / 'improvement_suggestions', at
\* most MaxApiSuggestions long, without repetition
MaxApiSuggestions == 3
ApiSuggestionLists ==
    {s \in UNION {[1..n -> ApiSuggestions] : n \in 0..MaxApiSuggestions} :
        \A i, j \in DOMAIN s : i # j => s[i] # s[j]}

\* api_feedback / api_analysis: None or {} when the remote pass did not run or
\* failed (<<>>), or the dict of the answer with its list of suggestions
ApiFeedbacks == {<<>>} \cup {<<l>> : l \in ApiSuggestionLists}

\* api_feedback['specific_improvements'][:2]
ApiTaken == 2
ApiCandidates(api_feedback) ==
    IF api_feedback = <<>> THEN <<>> ELSE Take(api_feedback[1], ApiTaken)

MoreTransitions == "Consider using more transitional phrases to connect sentences"
Disconnected == "Several sentences appear disconnected. Try to establish clearer logical connections"
ParagraphTransitions == "Add transition words or phrases at the beginning of paragraphs"
AbruptJumps == "Some sentences seem to jump to new topics abruptly. Consider adding bridging sentences"

\* CoherenceAnalyzer._generate_suggestions with the general suggestion placed
\* before the remote ones
CoherenceSuggestions_GeneralFirst(low_flow, many_weak, few_transitions, api_feedback, abrupt) ==
    Take(When(low_flow, MoreTransitions)
           \o When(many_weak, Disconnected)
           \o When(few_transitions, ParagraphTransitions)
           \o When(abrupt, AbruptJumps)
           \o ApiCandidates(api_feedback),
         MaxSuggestions)

\* CoherenceAnalyzer._generate_suggestions: low_flow is an average flow under
\* 0.4, many_weak more than 3 weak connections, few_transitions more than half
\* of the paragraph transitions without a transition word, abrupt a weak
\* connection of similarity under 0.2
CoherenceSuggestions(low_flow, many_weak, few_transitions, api_feedback, abrupt) ==
    Take(When(low_flow, MoreTransitions)
           \o When(many_weak, Disconnected)
           \o When(few_transitions, ParagraphTransitions)
           \o ApiCandidates(api_feedback)
           \o When(abrupt, AbruptJumps),
         MaxSuggestions)

ExpandCoverage == "Expand coverage of: ..."
ConsiderAddressing == "Consider addressing: ..."
Refocus == "Several sections drift from the main topic. Consider refocusing or removing them"
GoodCoverage == "Good topic coverage! Consider adding more depth or examples"
RelateSections == "Ensure all sections clearly relate to the main topic"

\* RelevanceAnalyzer._generate_suggestions: low_coverage is a topic covered
\* under 50, missing a non-empty missing_aspects, drifting more than 2 drifting
\* sections, all_covered every topic covered over 80
RelevanceSuggestions(low_coverage, missing, drifting, api_analysis, all_covered) ==
    LET suggestions ==
            When(low_coverage, ExpandCoverage)
              \o When(missing, ConsiderAddressing)
              \o When(drifting, Refocus)
              \o ApiCandidates(api_analysis)
    IN  Take(IF suggestions # <<>> THEN suggestions
             ELSE IF all_covered THEN <<GoodCoverage>> ELSE <<RelateSections>>,
             MaxSuggestions)

\* suggestions = self._generate_suggestions(all_errors, processed_text) of the
\* grammar facet, for the error types found, their number and the sentences
CountsOfErrors == {0, 3, 11}
GrammarSuggest ==
    /\ call = NoCall
    /\ \E types \in SUBSET ErrorTypes, n \in CountsOfErrors, long \in BOOLEAN :
        /\ types = {} <=> n = 0
        /\ call' = [fn |-> "GrammarAnalyzer._generate_suggestions",
                    args |-> [api |-> <<>>, local |-> <<types, n, long>>]]
        /\ ret' = <<GrammarSuggestions(types, n, long)>>
    /\ HelperFrame

\* suggestions = self._generate_suggestions(...) of the coherence facet
CoherenceSuggest ==
    /\ call = NoCall
    /\ \E low_flow \in BOOLEAN, many_weak \in BOOLEAN, few_transitions \in BOOLEAN,
          abrupt \in BOOLEAN, api_feedback \in ApiFeedbacks :
        /\ call' = [fn |-> "CoherenceAnalyzer._generate_suggestions",
                    args |-> [api |-> api_feedback,
                              local |-> <<low_flow, many_weak, few_transitions, abrupt>>]]
        /\ ret' = <<CoherenceSuggestions(low_flow, many_weak, few_transitions,
                                         api_feedback, abrupt)>>
    /\ HelperFrame

\* suggestions = self._generate_suggestions(...) of the relevance facet; a
\* topic covered under 50 is not covered over 80
RelevanceSuggest ==
    /\ call = NoCall
    /\ \E low_coverage \in BOOLEAN, missing \in BOOLEAN, drifting \in BOOLEAN,
          all_covered \in BOOLEAN, api_analysis \in ApiFeedbacks :
        /\ ~(low_coverage /\ all_covered)
        /\ call' = [fn |-> "RelevanceAnalyzer._generate_suggestions",
                    args |-> [api |-> api_analysis,
                              local |-> <<low_coverage, missing, drifting, all_covered>>]]
        /\ ret' = <<RelevanceSuggestions(low_coverage, missing, drifting,
                                         api_analysis, all_covered)>>
    /\ HelperFrame

\* a string is written as the list of its characters; n times the character c
RECURSIVE Rep(_, _)
Rep(c, n) == IF n = 0 THEN <<>> ELSE <<c>> \o Rep(c, n - 1)

\* the first text_min_length characters of the texts whose key is computed
KeyPrefix == Rep("a", text_min_length)

\* what follows them, and the topics: strings over a letter and the colon
MaxTail == 2
KeyTails == UNION {[1..n -> {"a", ":"}] : n \in 0..MaxTail}
KeyTexts == {KeyPrefix \o t : t \in KeyTails}

\* topic: None and '' are both written <<>> (f"{topic if topic else ''}")
KeyTopics == KeyTails

\* content = f"{text}:{topic if topic else ''}"
KeyContent(text, topic) == text \o <<":">> \o topic

\* hashlib.sha256(content.encode()).hexdigest(): two contents have the same
\* digest exactly when they are equal, collisions of SHA-256 aside
Sha256(content) == content

\* cache_key = cache_service.generate_key(input_data.text, input_data.topic)
\* for two requests
GenerateKeys ==
    /\ call = NoCall
    /\ \E t1 \in KeyTexts, t2 \in KeyTexts, tp1 \in KeyTopics, tp2 \in KeyTopics :
        /\ call' = [fn |-> "generate_key", args |-> <<<<t1, tp1>>, <<t2, tp2>>>>]
        /\ ret' = <<Sha256(KeyContent(t1, tp1)), Sha256(KeyContent(t2, tp2))>>
    /\ HelperFrame

\* the characters of the texts whose statistics are computed: a letter, a
\* space, a full stop, the zero-width space U+200B and the control character
\* U+0001
ZeroWidth == "U+200B"
Control == "U+0001"
Chars == {"a", " ", ".", ZeroWidth, Control}

\* texts of one line: up to three runs of one character each
FirstRun == {1, 10}
SecondRun == {0, 1, 2}
ThirdRun == {0, 1}
StatTexts ==
    {Rep(c1, n1) \o Rep(c2, n2) \o Rep(c3, n3) :
        c1 \in Chars, c2 \in Chars, c3 \in Chars,
        n1 \in FirstRun, n2 \in SecondRun, n3 \in ThirdRun}

\* str.isspace: U+200B and U+0001 are not white space
IsSpace(c) == c = " "

RECURSIVE LStrip(_)
LStrip(s) == IF s # <<>> /\ IsSpace(Head(s)) THEN LStrip(Tail(s)) ELSE s

RECURSIVE RStrip(_)
RStrip(s) ==
    IF s # <<>> /\ IsSpace(s[Len(s)]) THEN RStrip(SubSeq(s, 1, Len(s) - 1)) ELSE s

\* str.strip()
Strip(s) == RStrip(LStrip(s))

\* TextInput: min_length and max_length of the field, then validate_text,
\* which refuses a blank text and returns v.strip(): <<>> when refused
ValidateText(v) ==
    IF Len(v) < text_min_length \/ Len(v) > text_max_length \/ Strip(v) = <<>>
        THEN <<>>
        ELSE <<Strip(v)>>

\* re.sub(r' +', ' ', text)
RECURSIVE CollapseSpaces(_)
CollapseSpaces(s) ==
    IF Len(s) < 2 THEN s
    ELSE IF s[1] = " " /\ s[2] = " " THEN CollapseSpaces(Tail(s))
    ELSE <<s[1]>> \o CollapseSpaces(Tail(s))

\* re.sub(r' +([.,!?;:])', r'\1', text)
RECURSIVE NoSpaceBeforePunctuation(_)
NoSpaceBeforePunctuation(s) ==
    IF s = <<>> THEN s
    ELSE IF s[1] = " " /\ LStrip(s) # <<>> /\ Head(LStrip(s)) = "."
             THEN NoSpaceBeforePunctuation(LStrip(s))
             ELSE <<s[1]>> \o NoSpaceBeforePunctuation(Tail(s))

\* re.sub(r'([.,!?;:])([A-Za-z])', r'\1 \2', text)
RECURSIVE SpaceAfterPunctuation(_)
SpaceAfterPunctuation(s) ==
    IF Len(s) < 2 THEN s
    ELSE IF s[1] = "." /\ s[2] = "a"
             THEN <<".", " ", "a">> \o SpaceAfterPunctuation(Tail(Tail(s)))
             ELSE <<s[1]>> \o SpaceAfterPunctuation(Tail(s))

\* TextPreprocessor.process on a text of one line of these characters: the
\* white space is normalised, the control characters are removed and the text
\* is stripped (the steps on null bytes, encodings, quotes, new lines and upper
\* case letters leave such a text as it is)
process(text) ==
    Strip(SelectSeq(SpaceAfterPunctuation(NoSpaceBeforePunctuation(CollapseSpaces(text))),
                    LAMBDA c : c # Control))

\* text.split(): the words between runs of white space
RECURSIVE SplitWords(_, _)
SplitWords(s, word) ==
    IF s = <<>> THEN (IF word = <<>> THEN <<>> ELSE <<word>>)
    ELSE IF IsSpace(Head(s))
             THEN (IF word = <<>> THEN <<>> ELSE <<word>>) \o SplitWords(Tail(s), <<>>)
             ELSE SplitWords(Tail(s), Append(word, Head(s)))

\* ' '.join(words)
RECURSIVE JoinWords(_)
JoinWords(words) ==
    IF words = <<>> THEN <<>>
    ELSE IF Len(words) = 1 THEN words[1]
    ELSE words[1] \o <<" ">> \o JoinWords(Tail(words))

\* BaseAnalyzer.preprocess_text: ' '.join(text.split()), the zero-width
\* characters removed, strip()
preprocess_text(text) ==
    Strip(SelectSeq(JoinWords(SplitWords(text, <<>>)), LAMBDA c : c # ZeroWidth))

\* the number of maximal runs of characters of the set inside s
RECURSIVE Runs(_, _, _)
Runs(s, inside, within) ==
    IF s = <<>> THEN 0
    ELSE IF Head(s) \in inside
             THEN (IF within THEN 0 ELSE 1) + Runs(Tail(s), inside, TRUE)
             ELSE Runs(Tail(s), inside, FALSE)

\* re.split(r'[.!?]+', text), each piece stripped, the empty ones left out:
\* the number of pieces that hold something besides white space
RECURSIVE SentenceCount(_, _)
SentenceCount(s, piece) ==
    IF s = <<>> THEN (IF Strip(piece) = <<>> THEN 0 ELSE 1)
    ELSE IF Head(s) = "."
             THEN (IF Strip(piece) = <<>> THEN 0 ELSE 1) + SentenceCount(Tail(s), <<>>)
             ELSE SentenceCount(Tail(s), Append(piece, Head(s)))

\* what a call that raised ZeroDivisionError leaves
Raised == [raised |-> TRUE]

\* BaseAnalyzer.get_text_statistics on a text of one line: words are the
\* matches of \b\w+(?:'\w+)?\b, text.split('\n\n') is the list of the one
\* paragraph, which is never empty, so avg_paragraph_length is always divided;
\* an average is written <<numerator, denominator>>
get_text_statistics(text) ==
    LET words == Runs(text, {"a"}, FALSE)
        sentences == SentenceCount(text, <<>>)
        paragraph_count == IF Strip(text) = <<>> THEN 0 ELSE 1
    IN  IF paragraph_count = 0 THEN Raised
        ELSE [raised |-> FALSE,
              word_count |-> words, sentence_count |-> sentences,
              paragraph_count |-> paragraph_count,
              avg_sentence_length |-> IF sentences # 0 THEN <<words, sentences>> ELSE <<0, 1>>,
              avg_paragraph_length |-> <<sentences, paragraph_count>>]

\* GrammarAnalyzer.analyze, lines 49-53, on the text analyze_text hands it
\* (main.py:123-127) for a request the model accepts
TextStatistics ==
    /\ call = NoCall
    /\ \E v \in StatTexts :
        /\ ValidateText(v) # <<>>
        /\ LET processed_text == preprocess_text(process(ValidateText(v)[1]))
           IN  /\ call' = [fn |-> "get_text_statistics",
                           args |-> [text |-> v, processed_text |-> processed_text]]
               /\ ret' = <<get_text_statistics(processed_text)>>
    /\ HelperFrame

NextHelpers ==
    \/ TextStatistics
    \/ GenerateKeys
    \/ FeedbackSummary
    \/ IdentifyImprovements
    \/ GrammarSuggest
    \/ CoherenceSuggest
    \/ RelevanceSuggest

SpecHelpers == InitEmpty /\ [][NextHelpers]_vars

-----------------------------------------------------------------------------
(* RelevanceAnalyzer._extract_key_terms of two requests in flight at once.
   The analyzer is one module-level object: both requests use its one
   tfidf_vectorizer and its executor of four threads. *)

KeyTermFrame == UNCHANGED <<mvars, ovars, svars, rvars, gvars, hvars>>

\* fewer filtered tokens than this: the most common words are returned at once
MinTokens == 20

\* the texts of the requests: the number of filtered tokens and the number of
\* features (words and pairs of words) the vectorizer learns from the text
KeyTermTexts ==
    {[id |-> "brief", filtered_tokens |-> 12, features |-> 15],
     [id |-> "oceans", filtered_tokens |-> 20, features |-> 30],
     [id |-> "rivers", filtered_tokens |-> 22, features |-> 30],
     [id |-> "markets", filtered_tokens |-> 25, features |-> 40]}

TextOf(id) == CHOOSE t \in KeyTermTexts : t.id = id

\* Counter(filtered_tokens).most_common(n): terms of the request's own text
MostCommon(id) == [of |-> id, by |-> "most_common"]

\* the request enters _extract_key_terms with its text; a text of fewer than
\* MinTokens filtered tokens returns at once, any other submits fit_transform
\* to the executor and awaits it
ExtractStart(r, t) ==
    /\ extract[r].pc = "idle"
    /\ extract' = [extract EXCEPT ![r] =
           IF t.filtered_tokens < MinTokens
               THEN [pc |-> "done", text |-> t.id, matrix |-> "none",
                     key_terms |-> MostCommon(t.id)]
               ELSE [@ EXCEPT !.pc = "submitted", !.text = t.id]]
    /\ UNCHANGED tfidf_vectorizer
    /\ KeyTermFrame

\* executor thread, fit_transform: the vocabulary learned from the request's
\* text is stored on the vectorizer
FitVocabulary(r) ==
    /\ extract[r].pc = "submitted"
    /\ tfidf_vectorizer' = [tfidf_vectorizer EXCEPT !.vocabulary = extract[r].text]
    /\ extract' = [extract EXCEPT ![r].pc = "counted"]
    /\ KeyTermFrame

\* executor thread, fit_transform: the weights learned from the request's
\* counts are stored on the vectorizer
FitIdf(r) ==
    /\ extract[r].pc = "counted"
    /\ tfidf_vectorizer' = [tfidf_vectorizer EXCEPT !.idf = extract[r].text]
    /\ extract' = [extract EXCEPT ![r].pc = "fitted"]
    /\ KeyTermFrame

\* executor thread, fit_transform: the request's counts are scaled with the
\* weights stored on the vectorizer.  When another thread has stored its own
\* weights in between, the scaling raises if the numbers of features differ
\* and may raise or return otherwise.
Transform(r) ==
    /\ extract[r].pc = "fitted"
    /\ \E raised \in BOOLEAN :
          /\ tfidf_vectorizer.idf = extract[r].text => ~raised
          /\ (/\ tfidf_vectorizer.idf # extract[r].text
              /\ TextOf(tfidf_vectorizer.idf).features # TextOf(extract[r].text).features)
                 => raised
          /\ extract' = [extract EXCEPT ![r] =
                 IF raised THEN [@ EXCEPT !.pc = "raised"]
                 ELSE [@ EXCEPT !.pc = "returned", !.matrix = extract[r].text]]
    /\ UNCHANGED tfidf_vectorizer
    /\ KeyTermFrame

\* event loop, after the await: the feature names are read from the
\* vectorizer as it is now and paired with the request's scores by index;
\* an index beyond the names raises, and the except branch returns the most
\* common words of the request's own text
ExtractResume(r) ==
    /\ extract[r].pc = "returned"
    /\ LET feature_names == tfidf_vectorizer.vocabulary
           scores == extract[r].matrix
       IN  extract' = [extract EXCEPT ![r] =
               IF TextOf(scores).features > TextOf(feature_names).features
                   THEN [@ EXCEPT !.pc = "done", !.key_terms = MostCommon(extract[r].text)]
                   ELSE [@ EXCEPT !.pc = "done",
                                  !.key_terms = [of |-> feature_names, by |-> "tfidf"]]]
    /\ UNCHANGED tfidf_vectorizer
    /\ KeyTermFrame

\* event loop: fit_transform raised, the except branch returns the most
\* common words of the request's own text
ExtractFallback(r) ==
    /\ extract[r].pc = "raised"
    /\ extract' = [extract EXCEPT ![r].pc = "done",
                                  ![r].key_terms = MostCommon(extract[r].text)]
    /\ UNCHANGED tfidf_vectorizer
    /\ KeyTermFrame

Start == \E r \in Requests, t \in KeyTermTexts : ExtractStart(r, t)
Vocabulary == \E r \in Requests : FitVocabulary(r)
Idf == \E r \in Requests : FitIdf(r)
Scale == \E r \in Requests : Transform(r)
Resume == \E r \in Requests : ExtractResume(r)
Fallback == \E r \in Requests : ExtractFallback(r)

NextKeyTerms == Start \/ Vocabulary \/ Idf \/ Scale \/ Resume \/ Fallback

SpecKeyTerms == InitEmpty /\ [][NextKeyTerms]_vars

-----------------------------------------------------------------------------
(* Claims about the finding merge, checked under SpecMerge *)

\* every rearrangement of the list s
Rearrangements(s) ==
    {[i \in 1..Len(s) |-> s[p[i]]] : p \in Permutations(1..Len(s))}

\* no two findings of the list lie within the tolerance of each other
PairwiseApart(s) ==
    \A i, j \in DOMAIN s : i # j => ~Overlaps(s[i], s[j])

\* no two findings of the list share (start, end, type)
DistinctKeys(s) ==
    \A i, j \in DOMAIN s : i # j => pos_key(s[i]) # pos_key(s[j])

SameAcceptedSetUnderPermutation ==
    \A p \in Rearrangements(local_errors), q \in Rearrangements(api_errors) :
        SeqToSet(_merge_errors(p, q)) = SeqToSet(all_errors)

\* C1 (as stated): permuting the local list or the remote list before the merge
\* yields the same set of accepted findings.
C1_OrderIndependent ==
    mpc = "merged" => SameAcceptedSetUnderPermutation

\* C1 (amended): when no two local findings lie within the tolerance of each
\* other and no two remote findings share (start, end, type), permuting either
\* list before the merge yields the same set of accepted findings.
C1_OrderIndependentWhenApart ==
    (mpc = "merged" /\ PairwiseApart(local_errors) /\ DistinctKeys(api_errors))
        => SameAcceptedSetUnderPermutation

\* a merge of two local and two remote findings that meets the amended precondition
\* and in which a local finding was dropped for a remote one
C1_Witness ==
    /\ mpc = "merged"
    /\ PairwiseApart(local_errors) /\ DistinctKeys(api_errors)
    /\ Len(local_errors) = 2 /\ Len(api_errors) = 2
    /\ local_errors[1].position[1] > local_errors[2].position[1]
    /\ Len(all_errors) = 3

\* C2 (as stated): no two accepted findings of the same source (both remote or
\* both local) lie within the tolerance of each other on both endpoints.
C2_NoNearDuplicatesPerSource ==
    mpc = "merged" =>
        \A i, j \in DOMAIN all_errors :
            (i # j /\ IsRemote(all_errors[i]) = IsRemote(all_errors[j]))
                => ~Overlaps(all_errors[i], all_errors[j])

\* C2 (amended): an accepted local finding lies within the tolerance (both
\* endpoints less than 5 apart) of no other accepted finding, local or remote;
\* two accepted remote findings never share (start, end, type), but may lie
\* within the tolerance of each other.
C2_NoNearDuplicateOfLocal ==
    mpc = "merged" =>
        \A i, j \in DOMAIN all_errors :
            i # j =>
                /\ (~IsRemote(all_errors[i]) \/ ~IsRemote(all_errors[j]))
                       => ~Overlaps(all_errors[i], all_errors[j])
                /\ pos_key(all_errors[i]) # pos_key(all_errors[j])

\* a merge that accepted two local findings and a remote one and dropped a local
\* finding lying within the tolerance of an accepted one
C2_Witness ==
    /\ mpc = "merged"
    /\ Len(local_errors) = 3 /\ Len(api_errors) = 1
    /\ Len(all_errors) = 3
    /\ \E i \in DOMAIN local_errors :
           /\ local_errors[i] \notin SeqToSet(all_errors)
           /\ \E k \in DOMAIN all_errors : Overlaps(local_errors[i], all_errors[k])

\* the indices of the local list the overlap filter keeps when nothing was
\* accepted before: index i is kept iff no kept earlier index lies within the tolerance
KeptIndices(s) ==
    CHOOSE A \in SUBSET DOMAIN s :
        \A i \in DOMAIN s :
            i \in A <=> \A j \in A : j < i => ~Overlaps(s[i], s[j])

\* the list s restricted to the indices in A, in the order of s
RECURSIVE Restrict(_, _, _)
Restrict(s, A, i) ==
    IF i > Len(s) THEN <<>>
    ELSE (IF i \in A THEN <<s[i]>> ELSE <<>>) \o Restrict(s, A, i + 1)

\* C3 (as stated): with an empty remote list the merge returns the local
\* findings that pass the overlap filter, in their relative order in the input.
C3_FilteredLocalInInputOrder ==
    (mpc = "merged" /\ api_errors = <<>>)
        => all_errors = Restrict(local_errors, KeptIndices(local_errors), 1)

\* C3 (amended): with an empty remote list the merge returns exactly the local
\* findings that pass the overlap filter, in ascending order of start offset;
\* findings with equal start keep their relative order in the input.
C3_FilteredLocalSortedByStart ==
    (mpc = "merged" /\ api_errors = <<>>) =>
        LET kept == Restrict(local_errors, KeptIndices(local_errors), 1)
        IN  /\ Len(all_errors) = Len(kept)
            /\ SeqToSet(all_errors) = SeqToSet(kept)
            /\ \A i, j \in DOMAIN all_errors :
                   i < j =>
                       \/ all_errors[i].position[1] < all_errors[j].position[1]
                       \/ /\ all_errors[i].position[1] = all_errors[j].position[1]
                          /\ \E a, b \in DOMAIN kept :
                                 a < b /\ kept[a] = all_errors[i] /\ kept[b] = all_errors[j]

\* a merge of three local findings, no remote ones, that dropped one of them and
\* returned the other two (of equal start) in the order of the input
C3_Witness ==
    /\ mpc = "merged" /\ api_errors = <<>>
    /\ Len(local_errors) = 3 /\ Len(all_errors) = 2
    /\ all_errors[1].position[1] = all_errors[2].position[1]
    /\ all_errors[1].position[2] > all_errors[2].position[2]

\* C4: the accepted findings the facet returns are in ascending order of span
\* start, whatever the local and the remote pass delivered and in what order.
C4_SortedByStart ==
    mpc = "merged" =>
        \A i, j \in DOMAIN all_errors :
            i < j => all_errors[i].position[1] <= all_errors[j].position[1]

\* a merge of local and remote findings delivered in descending order of start
C4_Witness ==
    /\ mpc = "merged"
    /\ Len(all_errors) = 4
    /\ \E i \in DOMAIN all_errors : IsRemote(all_errors[i])
    /\ \E i \in DOMAIN all_errors : ~IsRemote(all_errors[i])
    /\ Len(local_errors) >= 2
    /\ local_errors[1].position[1] > local_errors[2].position[1]
    /\ Len(api_errors) = 2
    /\ api_errors[1].position[1] > api_errors[2].position[1]

\* the remote findings whose (start, end, type) no earlier remote finding has
FirstOfKey(api) ==
    {i \in DOMAIN api : \A j \in 1..(i - 1) : pos_key(api[j]) # pos_key(api[i])}

\* C17: the remote findings of the merged list are exactly the remote findings
\* whose (start, end, type) no earlier remote finding has, whatever the local
\* findings are.
C17_RemoteAcceptedUnlessDuplicate ==
    mpc = "merged" =>
        /\ \A i \in FirstOfKey(api_errors) : api_errors[i] \in SeqToSet(all_errors)
        /\ Cardinality({i \in DOMAIN all_errors : IsRemote(all_errors[i])})
               = Cardinality(FirstOfKey(api_errors))

\* a merge of two remote findings within the tolerance of each other and of a
\* local finding: both remote findings are in the merged list
C17_Witness ==
    /\ mpc = "merged"
    /\ Len(api_errors) = 2 /\ Len(local_errors) > 0
    /\ pos_key(api_errors[1]) # pos_key(api_errors[2])
    /\ Overlaps(api_errors[1], api_errors[2])
    /\ Overlaps(local_errors[1], api_errors[1])
    /\ api_errors[1] \in SeqToSet(all_errors)
    /\ api_errors[2] \in SeqToSet(all_errors)

-----------------------------------------------------------------------------
(* Claims about analyze_text, checked under Spec *)

GrammarOnly == {<<"grammar", 10>>}

\* C5 (as stated): with custom_weights = {"grammar": 1} the weights used are
\* grammar 1.0, coherence 0.0, relevance 0.0 and the overall score is the
\* grammar score.
C5_GrammarOnlyWeights ==
    (pc = "set" /\ req[1].custom_weights = GrammarOnly) =>
        /\ weights.num["grammar"] = weights.den
        /\ weights.num["coherence"] = 0
        /\ weights.num["relevance"] = 0
        /\ result[1].overall_score = 100 * result[1].grammar

\* C5 (amended): with custom_weights = {"grammar": 1} the value 1 is laid over
\* the defaults (coherence 0.3, relevance 0.3) and the three are divided by their
\* total 1.6: the weights used are grammar 0.625, coherence 0.1875, relevance
\* 0.1875, and the overall score is 0.625 g + 0.1875 c + 0.1875 r rounded to two
\* places.
C5_GrammarOneOverlaid ==
    (pc = "set" /\ req[1].custom_weights = GrammarOnly) =>
        /\ weights.den = 16
        /\ weights.num["grammar"] = 10
        /\ weights.num["coherence"] = 3
        /\ weights.num["relevance"] = 3
        /\ LET exact16 == 100 * (10 * result[1].grammar + 3 * result[1].coherence
                                   + 3 * result[1].relevance)
           IN  /\ 16 * result[1].overall_score - exact16 <= 8
               /\ exact16 - 16 * result[1].overall_score <= 8

\* a request with custom_weights = {"grammar": 1} whose grammar score is 100 and
\* whose coherence score is 0: the overall score is not 100
C5_Witness ==
    /\ pc = "set" /\ req[1].custom_weights = GrammarOnly
    /\ result[1].grammar = 100 /\ result[1].coherence = 0
    /\ result[1].overall_score < 100 * 100

\* C6: for custom weights with positive values, the weights of the three facets
\* that enter the overall score sum to 1.
C6_WeightsSumToOne ==
    (pc = "set" /\ req[1].custom_weights # {}
        /\ \A p \in req[1].custom_weights : p[2] > 0)
        => weights.num["grammar"] + weights.num["coherence"] + weights.num["relevance"]
               = weights.den

AllFacetsDone == \A f \in FacetNames : facet[f].st = "done"

\* C7: a request whose text length is within the configured bounds, and whose
\* three facets returned, is answered with a result whose overall score and
\* facet scores lie in [0, 100].
C7_ScoresInRange ==
    (pc = "done" /\ AllFacetsDone
        /\ min_text_length <= req[1].text.len /\ req[1].text.len <= max_text_length)
        => /\ resp.kind = "200"
           /\ resp.result # <<>>
           /\ OverallValid(resp.result[1].overall_score)
           /\ \A f \in FacetNames : resp.result[1][f] \in 0..100

\* C8: when one facet raises and the other two return, the request is answered
\* with a result in which the failing facet has the neutral score 50 and the
\* other two keep their scores.
C8_FacetFailureDegrades ==
    (pc = "done"
        /\ \E f \in FacetNames :
               /\ facet[f].st = "raised"
               /\ \A g \in FacetNames \ {f} : facet[g].st = "done")
        => /\ resp.kind = "200"
           /\ resp.result # <<>>
           /\ \A f \in FacetNames :
                  resp.result[1][f] =
                      IF facet[f].st = "raised" THEN NeutralScore ELSE facet[f].score

\* C9: a request whose text is shorter than min_text_length, longer than
\* max_text_length or empty after trimming is answered with a validation error,
\* and no facet runs for it.
C9_OutOfBoundsRejected ==
    (req # <<>>
        /\ \/ req[1].text.len < min_text_length
           \/ req[1].text.len > max_text_length
           \/ req[1].text.stripped = 0)
        => /\ facet = NoFacets
           /\ pc = "done" => resp.kind = "422"

\* C15: for a request with neither a topic nor a non-empty topics list, the
\* relevance facet returns the score 50 with the suggestion to provide a topic,
\* and none of the key-term, coverage, missing-aspect, drift or remote steps ran.
C15_NoTopicNeutral ==
    (req # <<>> /\ req[1].topic = NoTopic /\ req[1].topics = <<>>
        /\ facet.relevance.st # "pending")
        => /\ facet.relevance = FacetDone(NeutralScore)
           /\ relevance_score # <<>>
           /\ relevance_score[1].score = NeutralScore
           /\ ProvideTopic \in relevance_score[1].suggestions
           /\ relevance_score[1].steps = {}

\* the relevance facet of a request without topic and topics has returned,
\* and the result built from it carries the score 50
C15_Witness ==
    /\ pc = "set" /\ req[1].topic = NoTopic /\ req[1].topics = <<>>
    /\ relevance_score # <<>> /\ relevance_score[1].steps = {}
    /\ result[1].relevance = NeutralScore

\* C13: a request during whose cache calls the store failed, whose facets all
\* returned and which has no custom weights, is answered with the computed
\* result (HTTP 200).
C13_CacheFaultNeverFailsAnalyze ==
    (pc = "done" /\ faulted # {} /\ resp.kind # "aborted"
        /\ req[1].custom_weights = {}
        /\ \A f \in FacetNames : facet[f].st # "raised")
        => /\ resp.kind = "200"
           /\ resp.result # <<>>

\* C14: a step of analyze_text that puts a row into the cache is the
\* cache_service.set of a request whose three facets have returned and whose
\* result is built, and the row holds that result under the request's key;
\* the step that ends a request without a result leaves the cache as it is.
C14_WriteOnlyAfterAggregation ==
    [][ /\ \A k \in Keys :
              (cache'[k] # <<>> /\ cache'[k] # cache[k])
                  => /\ pc = "set" /\ pc' = "return"
                     /\ AllFacetsDone
                     /\ result # <<>>
                     /\ k = CurrentKey
                     /\ cache'[k][1].result = result[1]
        /\ (pc' = "done" /\ resp'.kind \in {"422", "500", "aborted"}) => cache' = cache
      ]_vars

\* the result of a request has just been stored under its key
C14_Witness ==
    /\ pc = "return"
    /\ AllFacetsDone
    /\ cache[CurrentKey] # <<>>
    /\ cache[CurrentKey][1].result = result[1]
    /\ cache[CurrentKey][1].timestamp = now

-----------------------------------------------------------------------------
(* Claims about the cache in analyze_text, checked under SpecCache *)

\* an earlier request with the key of the one in hand got a fresh result less
\* than cache_ttl seconds ago, and the store has not failed in either request
RepeatedWithinTtl ==
    /\ req # <<>>
    /\ returned[CurrentKey] # <<>>
    /\ now < returned[CurrentKey][1].at + cache_ttl
    /\ returned[CurrentKey][1].clean
    /\ faulted = {}

\* C10: with the cache enabled, a request whose (text, topic) was analysed less
\* than cache_ttl seconds ago is answered from the cache: no facet runs for it and
\* the facet scores are those of the first answer.
C10_SecondCallServedFromCache ==
    (enabled /\ RepeatedWithinTtl /\ pc # "get") =>
        /\ pc = "done"
        /\ resp.kind = "200" /\ resp.cached
        /\ facet = NoFacets
        /\ \A f \in FacetNames :
               resp.result[1][f] = returned[CurrentKey][1].result[f]

-----------------------------------------------------------------------------
(* Claims about the cache service, checked under SpecStore *)

\* C11: after set(k, v) on an enabled service whose store does not fail, a
\* get(k) before the TTL has elapsed, with no delete or clear of k in between,
\* returns v, and a get(k) after the TTL has elapsed returns None.
C11_SetThenGet ==
    (got # <<>> /\ got[1].fault = "none" /\ calls[got[1].key] # <<>>)
        => LET set == calls[got[1].key][1]
           IN  IF got[1].at < set.at + cache_ttl
                   THEN got[1].value = <<set.value>>
                   ELSE got[1].value = <<>>

\* the row a get found was there, had not expired and has the current version
RowCurrent(g) ==
    /\ g.row # <<>>
    /\ g.row[1].expire_time > g.at
    /\ g.row[1].version = CacheVersion

\* C12: get returns a result only when a row exists under the key, has not
\* expired and has the current version, and the result is the row's; when the
\* row has another version (service enabled, store not failing), get returns
\* None and the next get returns None too: the row is gone, unless it had
\* expired, and then no get returns it.
C12_GetOnlyCurrentVersion ==
    got # <<>> =>
        /\ got[1].value # <<>> =>
               (RowCurrent(got[1]) /\ got[1].value = <<got[1].row[1].result>>)
        /\ (enabled /\ got[1].fault = "none" /\ got[1].row # <<>>
               /\ got[1].row[1].version # CacheVersion)
               => /\ got[1].value = <<>>
                  /\ CacheServiceGet(got[1].key) = <<>>
                  /\ got[1].row[1].expire_time > got[1].at => cache[got[1].key] = <<>>

\* a get found an unexpired row of version 0.9.0, returned None and removed it
C12_Witness ==
    /\ got # <<>> /\ enabled /\ got[1].fault = "none"
    /\ got[1].row # <<>> /\ got[1].row[1].version = "0.9.0"
    /\ got[1].row[1].expire_time > got[1].at
    /\ got[1].value = <<>>
    /\ cache[got[1].key] = <<>>

-----------------------------------------------------------------------------
(* Claims about the remote passes, checked under SpecRemote *)

\* C18: any two remote requests are sent at least min_request_interval apart.
C18_MinimumInterval ==
    \A e1, e2 \in issued :
        e1 # e2 => Abs(e1[2] - e2[2]) >= min_request_interval

\* C19: a remote pass falls back to the local results only after max_retries
\* requests have been sent and have failed.
C19_RetriedBeforeFallback ==
    \A c \in Callers : rpc[c] = "fallback" => attempts[c] = max_retries

\* the time at which remote pass c sent its request
SentAt(c) == (CHOOSE e \in issued : e[1] = c)[2]

\* C20: a remote call that has been sent ends, with an answer or as a failure
\* of the remote pass, and is not under way api_timeout seconds after it was sent.
C20_RemoteCallEnds ==
    \A c \in Callers :
        (rpc[c] = "inflight")
            ~> (rpc[c] \in {"returned", "fallback"} /\ now <= SentAt(c) + api_timeout)

-----------------------------------------------------------------------------
(* Claims about the grammar facet, checked under SpecGrammar *)

\* the remote answers the facet cannot use: the call raised, the answer holds
\* no JSON that parses, or one of its findings has an unknown type or severity
RemoteFailed(r) ==
    \/ r.kind \in {"raise", "no_json", "bad_json"}
    \/ \E i \in DOMAIN r.data :
          r.data[i].type \notin ErrorTypes \/ r.data[i].severity \notin Severities

\* C21: when the remote pass fails (the call raises, the answer holds no JSON
\* that parses, or a remote finding has an unknown type or severity), the
\* facet still returns, with the findings and the score it returns when the
\* remote pass is not run at all
C21_RemoteFailureAbsorbed ==
    (grammar_score # <<>> /\ response # <<>> /\ RemoteFailed(response[1])) =>
        LET alone == _merge_errors(local_errors, <<>>)
        IN  /\ grammar_score[1].errors = alone
            /\ grammar_score[1].score = _calculate_score(alone, stats[1].word_count)

\* the facet returned after a remote answer of two findings, one usable and
\* one of an unknown type, with local findings at hand
C21_Witness ==
    /\ grammar_score # <<>>
    /\ response # <<>>
    /\ response[1].kind = "json"
    /\ Len(response[1].data) = 2
    /\ response[1].data[1].type \in ErrorTypes
    /\ response[1].data[1].severity \in Severities
    /\ response[1].data[2].type \notin ErrorTypes
    /\ local_errors # <<>>
    /\ grammar_score[1].errors = local_errors

\* 100 - 20 * penalty / max(word_count / 50, 1) held between 0 and 100, to two
\* places, in hundredths
ClampedRatioScore(errors, word_count) ==
    LET d == IF word_count > 50 THEN word_count ELSE 50
        n == 100 * d - 500 * TotalPenalty2(errors)
    IN  IF n <= 0 THEN 0 ELSE Round2(n, d)

\* C22: the grammar score is 100 - 20 * penalty / max(word_count / 50, 1) held
\* between 0 and 100, where penalty adds 0.5, 1, 2, 3 per accepted finding of
\* severity low, medium, high, critical
C22_ScoreFormula ==
    grammar_score # <<>> =>
        grammar_score[1].score = ClampedRatioScore(all_errors, stats[1].word_count)

\* C26: every finding of the merged list has start <= end, whichever pass it
\* came from
C26_SpansOrdered ==
    mpc = "merged" =>
        \A i \in DOMAIN all_errors :
            all_errors[i].position[1] <= all_errors[i].position[2]

-----------------------------------------------------------------------------
(* Claims about the helper functions, checked under SpecHelpers *)

\* the band of a score in hundredths
Band(ov) ==
    IF ov >= 9000 THEN "excellent"
    ELSE IF ov >= 8000 THEN "very good"
    ELSE IF ov >= 7000 THEN "good"
    ELSE IF ov >= 6000 THEN "fair"
    ELSE "needs improvement"

Largest(S) == CHOOSE x \in S : \A y \in S : y <= x
Smallest(S) == CHOOSE x \in S : \A y \in S : x <= y

\* C23: the summary names the band of the overall score the result reports
\* (>= 90 excellent, >= 80 very good, >= 70 good, >= 60 fair, otherwise needs
\* improvement); it names the strongest and the weakest facet exactly when the
\* largest facet score exceeds the smallest by more than 20, and says the text
\* is well-balanced otherwise
C23_SummaryNamesBand ==
    call.fn = "_generate_feedback_summary" =>
        LET scores == call.args.scores
            fs == ret[1].feedback_summary
            mx == Largest({scores[f] : f \in FacetNames})
            mn == Smallest({scores[f] : f \in FacetNames})
        IN  /\ fs.level = Band(ret[1].overall_score)
            /\ IF mx - mn > 2000
                   THEN /\ ~fs.balanced
                        /\ fs.strongest # <<>> /\ scores[fs.strongest[1]] = mx
                        /\ fs.weakest # <<>> /\ scores[fs.weakest[1]] = mn
                   ELSE fs.balanced /\ fs.strongest = <<>> /\ fs.weakest = <<>>

\* C24: the improvements are the first three distinct strings of the grammar,
\* coherence and relevance suggestions in that order: at most three, no two
\* equal, in the order of their first occurrence
C24_FirstThreeDistinct ==
    call.fn = "_identify_improvements" =>
        LET pool == call.args.grammar \o call.args.coherence \o call.args.relevance
            firsts == {i \in DOMAIN pool : \A j \in 1..(i - 1) : pool[j] # pool[i]}
            rank(i) == Cardinality({j \in firsts : j <= i})
            out == ret[1]
        IN  /\ Len(out) = (IF Cardinality(firsts) < 3 THEN Cardinality(firsts) ELSE 3)
            /\ \A k \in DOMAIN out : \E i \in firsts : rank(i) = k /\ out[k] = pool[i]

\* three improvements out of a pool of four distinct strings that starts with
\* a repetition
C24_Witness ==
    /\ call.fn = "_identify_improvements"
    /\ Len(call.args.grammar) = 2
    /\ call.args.grammar[1] = call.args.grammar[2]
    /\ Cardinality({call.args.grammar[1]} \cup SeqToSet(call.args.coherence)
                     \cup SeqToSet(call.args.relevance)) = 4
    /\ Len(ret[1]) = 3
    /\ ret[1][1] = call.args.grammar[1]

SuggestFunctions ==
    {"GrammarAnalyzer._generate_suggestions", "CoherenceAnalyzer._generate_suggestions",
     "RelevanceAnalyzer._generate_suggestions"}

\* C25: a facet returns at most five suggestions, and the cut to five never
\* drops a suggestion taken from the remote answer while it keeps one derived
\* locally
C25_CapPrefersRemote ==
    call.fn \in SuggestFunctions =>
        LET out == ret[1]
            api == call.args.api
            taken == IF api = <<>> THEN {}
                     ELSE {api[1][i] : i \in {k \in DOMAIN api[1] : k <= 2}}
        IN  /\ Len(out) <= 5
            /\ ~(/\ \E a \in taken : a \notin SeqToSet(out)
                 /\ \E i \in DOMAIN out : out[i] \notin ApiSuggestions)

\* the coherence facet had six candidates: the five returned hold both remote
\* suggestions, and the general local one was cut
C25_Witness ==
    /\ call.fn = "CoherenceAnalyzer._generate_suggestions"
    /\ call.args.local = <<TRUE, TRUE, TRUE, TRUE>>
    /\ call.args.api # <<>>
    /\ Len(call.args.api[1]) >= 2
    /\ Len(ret[1]) = 5
    /\ ret[1][4] = call.args.api[1][1]
    /\ ret[1][5] = call.args.api[1][2]

\* C28: two requests whose (text, topic) pairs differ, an absent topic being
\* the empty string, never get the same key
C28_KeySeparatesInputs ==
    call.fn = "generate_key" =>
        (call.args[1] # call.args[2] => ret[1] # ret[2])

\* C30: get_text_statistics returns a record for every text the request model
\* accepts, and never divides by zero
C30_StatisticsAlwaysReturned ==
    call.fn = "get_text_statistics" => ~ret[1].raised

-----------------------------------------------------------------------------
(* Claims about repeated requests, checked under SpecCache *)

\* C27: the result of a request depends on its own text, topic, topics and
\* custom weights alone: whatever was requested before, a request without any
\* topic gets the neutral relevance score, and the overall score returned is
\* the sum of the facet scores returned under the request's own weights
C27_ResultDependsOnRequestOnly ==
    (pc = "done" /\ resp.kind = "200") =>
        LET res == resp.result[1]
            w == ComputeWeights(req[1].custom_weights)
        IN  /\ AllTopics(req[1]) = <<>> => res.relevance = NeutralScore
            /\ w.den # 0 => res.overall_score =
                   Round2(res.grammar * w.num["grammar"]
                            + res.coherence * w.num["coherence"]
                            + res.relevance * w.num["relevance"], w.den)

-----------------------------------------------------------------------------
(* Claims about key-term extraction, checked under SpecKeyTerms *)

\* C29: with two requests in flight, the key terms computed for a request are
\* terms of that request's own text, whatever the interleaving of the two
\* extractions
C29_KeyTermsOfOwnText ==
    \A r \in Requests :
        extract[r].pc = "done" => extract[r].key_terms.of = extract[r].text

====
